---- MODULE Spec2Model ----
(***************************************************************************)
(* Model of the background scheduler of Event Peeper (src/background.js,   *)
(* second revision, lines 216-704): the shared rate limiter, the state     *)
(* predictor, the persisted state store, the per-server cache and          *)
(* fetchFromAPI with its await points, retry timers and notifications.     *)
(*                                                                         *)
(* Time is Date.now() in milliseconds; event times are epoch seconds.      *)
(* A JS value that is null, undefined or 0 is modelled by 0 (all falsy).   *)
(***************************************************************************)
EXTENDS Integers, Sequences, FiniteSets, TLC

\* ---------------------------------------------------------------- constants
RATE_WINDOW_MS == 10000

RATE_MAX_REQUESTS == 10

ANNOUNCE_WINDOW_SEC == 180

OPEN_WINDOW_SEC == 900

COOLDOWN_GAP_SEC == 1620

\* maxIterations of predictState
maxIterations == 4

\* floor of the local retry delay: Math.max(200, timeUntilNextSlotMs())
LOCAL_RETRY_MIN_MS == 200

\* floor of the delay after HTTP 429: Math.max(1000, ...)
RETRY_AFTER_MIN_MS == 1000

\* delay after HTTP 429 when Retry-After is absent or unparseable
RETRY_AFTER_DEFAULT_MS == 10000

\* ------------------------------------------------------------------ bounds
\* Date.now() when the service worker starts (any positive instant).
StartMs == 100000

\* The clock of the scheduler model advances by TickMs per Tick step.
TickMs == 5000

\* Number of Tick steps of the scheduler model.
MaxTicks == 1

Max(a, b) == IF a >= b THEN a ELSE b

\* ------------------------------------------------------------ rate limiter
\* pruneOld(): shift the head while it is older than the cutoff.
RECURSIVE pruneOld(_, _)
pruneOld(times, t) ==
    IF Len(times) > 0 /\ Head(times) < t - RATE_WINDOW_MS
    THEN pruneOld(Tail(times), t)
    ELSE times

\* timeUntilNextSlotMs(): the value returned at instant t.
timeUntilNextSlotMs(times, t) ==
    LET kept == pruneOld(times, t) IN
    IF Len(kept) < RATE_MAX_REQUESTS THEN 0
    ELSE Max(0, RATE_WINDOW_MS - (t - Head(kept)))

\* Variant: a window holding exactly RATE_MAX_REQUESTS stamps still allows.
canMakeAutoRequest_inclusive(times, t) ==
    Len(pruneOld(times, t)) <= RATE_MAX_REQUESTS

\* Variant: automatic requests are never refused.
canMakeAutoRequest_always(times, t) == TRUE

\* canMakeAutoRequest(): the value returned at instant t.
canMakeAutoRequest(times, t) == Len(pruneOld(times, t)) < RATE_MAX_REQUESTS

\* recordRequest(): the array after the call at instant t.
recordRequest(times, t) == Append(pruneOld(times, t), t)

\* getRateLimitStatus(): the record returned at instant t.
getRateLimitStatus(times, t) ==
    LET kept == pruneOld(times, t) IN
    [used |-> Len(kept), max |-> RATE_MAX_REQUESTS,
     available |-> RATE_MAX_REQUESTS - Len(kept),
     nextSlotMs |-> timeUntilNextSlotMs(kept, t)]

\* --------------------------------------------------------- state predictor
\* An event record; type "null" stands for null/undefined, a field 0 for an
\* absent field.
Rec(type, name, open, close, pot) ==
    [type |-> type, name |-> name, open_time |-> open, close_time |-> close,
     predicted_open_time |-> pot]

NullRec == Rec("null", "", 0, 0, 0)

Announced(name, open) == Rec("announced", name, open, 0, 0)

Open(name, open, close) == Rec("open", name, open, close, 0)

Closed(pot) == Rec("closed", "", 0, 0, pot)

\* Variant: a closed record past its announcement time becomes announced.
predictNextState_reannounce(data, nowSec) ==
    IF data.type = "announced"
    THEN IF data.open_time # 0 /\ nowSec >= data.open_time
         THEN Open(data.name, data.open_time, data.open_time + OPEN_WINDOW_SEC)
         ELSE NullRec
    ELSE IF data.type = "open"
    THEN LET closeTime == IF data.close_time # 0 THEN data.close_time
                          ELSE IF data.open_time # 0
                          THEN data.open_time + OPEN_WINDOW_SEC
                          ELSE 0 IN
         IF closeTime # 0 /\ nowSec >= closeTime
         THEN Closed(closeTime + COOLDOWN_GAP_SEC + ANNOUNCE_WINDOW_SEC)
         ELSE NullRec
    ELSE IF data.type = "closed"
    THEN IF data.predicted_open_time > ANNOUNCE_WINDOW_SEC
            /\ nowSec >= data.predicted_open_time - ANNOUNCE_WINDOW_SEC
         THEN Announced("", data.predicted_open_time)
         ELSE NullRec
    ELSE NullRec

\* Variant: an open event without close_time never closes.
predictNextState_noFallback(data, nowSec) ==
    IF data.type = "announced"
    THEN IF data.open_time # 0 /\ nowSec >= data.open_time
         THEN Open(data.name, data.open_time, data.open_time + OPEN_WINDOW_SEC)
         ELSE NullRec
    ELSE IF data.type = "open"
    THEN IF data.close_time # 0 /\ nowSec >= data.close_time
         THEN Closed(data.close_time + COOLDOWN_GAP_SEC + ANNOUNCE_WINDOW_SEC)
         ELSE NullRec
    ELSE NullRec

\* Variant: the announced event opens one second after open_time.
predictNextState_late(data, nowSec) ==
    IF data.type = "announced"
    THEN IF data.open_time # 0 /\ nowSec > data.open_time
         THEN Open(data.name, data.open_time, data.open_time + OPEN_WINDOW_SEC)
         ELSE NullRec
    ELSE IF data.type = "open"
    THEN LET closeTime == IF data.close_time # 0 THEN data.close_time
                          ELSE IF data.open_time # 0
                          THEN data.open_time + OPEN_WINDOW_SEC
                          ELSE 0 IN
         IF closeTime # 0 /\ nowSec >= closeTime
         THEN Closed(closeTime + COOLDOWN_GAP_SEC + ANNOUNCE_WINDOW_SEC)
         ELSE NullRec
    ELSE NullRec

\* predictNextState(data, now): the next record, or NullRec for "no change".
\* With close_time and open_time both absent closeTime is NaN, which is falsy
\* like 0.
predictNextState(data, nowSec) ==
    IF data.type = "announced"
    THEN IF data.open_time # 0 /\ nowSec >= data.open_time
         THEN Open(data.name, data.open_time, data.open_time + OPEN_WINDOW_SEC)
         ELSE NullRec
    ELSE IF data.type = "open"
    THEN LET closeTime == IF data.close_time # 0 THEN data.close_time
                          ELSE IF data.open_time # 0
                          THEN data.open_time + OPEN_WINDOW_SEC
                          ELSE 0 IN
         IF closeTime # 0 /\ nowSec >= closeTime
         THEN Closed(closeTime + COOLDOWN_GAP_SEC + ANNOUNCE_WINDOW_SEC)
         ELSE NullRec
    ELSE NullRec

\* The while loop of predictState from the given iteration count on:
\* <<currentData, iterations>> when the loop is left.
RECURSIVE predictLoop(_, _, _)
predictLoop(currentData, iterations, nowSec) ==
    IF iterations < maxIterations
    THEN LET nextState == predictNextState(currentData, nowSec) IN
         IF nextState.type = "null" \/ nextState.type = currentData.type
         THEN <<currentData, iterations + 1>>
         ELSE predictLoop(nextState, iterations + 1, nowSec)
    ELSE <<currentData, iterations>>

\* predictState(savedState) at second nowSec, applied to savedState.data.data.
predictState(data, nowSec) ==
    IF data.type = "null" THEN NullRec
    ELSE LET r == predictLoop(data, 0, nowSec) IN
         IF r[2] >= maxIterations THEN NullRec ELSE r[1]

\* Variant: the query starts one second after the announcement time.
needsApiQuery_late(predictedData, nowSec) ==
    IF predictedData.type = "null" THEN TRUE
    ELSE IF predictedData.type = "closed"
    THEN LET announceTime == IF predictedData.predicted_open_time # 0
                             THEN predictedData.predicted_open_time - ANNOUNCE_WINDOW_SEC
                             ELSE 0 IN
         announceTime # 0 /\ nowSec > announceTime
    ELSE FALSE

\* needsApiQuery(predictedData, now), as a truth value (null and 0 are falsy).
needsApiQuery(predictedData, nowSec) ==
    IF predictedData.type = "null" THEN TRUE
    ELSE IF predictedData.type = "closed"
    THEN LET announceTime == IF predictedData.predicted_open_time # 0
                             THEN predictedData.predicted_open_time - ANNOUNCE_WINDOW_SEC
                             ELSE 0 IN
         announceTime # 0 /\ nowSec >= announceTime
    ELSE FALSE

\* ----------------------------------------------------------- scheduler state
\* Known server ids (the alarm handler names 0 and 1).
Servers == {0, 1}

\* The server the requests of the scheduler model are for.
Polled == {0}

\* The invocations of fetchFromAPI of one run: the k-th has slot k.
Slots == {1, 2, 3}

\* A snapshot {data, error, loading, lastUpdated}; error is "null" for null.
Snap(data, loading, lastUpdated) ==
    [data |-> data, error |-> "null", loading |-> loading, lastUpdated |-> lastUpdated]

\* {data: null, error: null, loading: false, lastUpdated: 0}
ZeroSnap == Snap(NullRec, FALSE, 0)

\* A value of storage.local under the key of one server; present = FALSE
\* when the key is not in the store.
Entry(snap, savedAt) == [present |-> TRUE, data |-> snap, savedAt |-> savedAt]

NoEntry == [present |-> FALSE, data |-> ZeroSnap, savedAt |-> 0]

\* Start of the run in epoch seconds.
StartSec == StartMs \div 1000

\* Bodies the events API answers with on a 2xx response.
ApiBodies == {Closed(StartSec + TickMs \div 1000 + ANNOUNCE_WINDOW_SEC),
              Announced("E", StartSec + TickMs \div 1000)}

\* What storage.local may hold when the service worker starts: nothing, or an
\* entry saved by an earlier run of the worker.
InitEntries ==
    {NoEntry,
     Entry(Snap(Announced("F", StartSec + TickMs \div 1000), FALSE, StartMs - TickMs),
           StartMs - TickMs)}

\* A Retry-After header of a 429 response: kind "absent" (get returns null),
\* "empty", "number" (Number(ra) is the number secs), "date" (new Date(ra) is
\* the instant date, in ms) or "other" (neither a number nor a date).
Header(kind, secs, date) == [kind |-> kind, secs |-> secs, date |-> date]

NoHeader == Header("absent", 0, 0)

RetryAfterHeaders == {NoHeader, Header("number", 1, 0), Header("number", 10, 0)}

\* Outcomes of the network call: 2xx with a parseable body, HTTP 429, another
\* non-2xx status, a rejected fetch, a body res.json() rejects.
FailKinds == {"httpError", "networkError", "parseError"}

\* The rate window when the run starts: empty, or filled by a burst of
\* RATE_MAX_REQUESTS - 1 forced refreshes, one tick before the run starts,
\* whose network calls all failed (which leaves every other variable as
\* constructed).
InitTimes == {<<>>, [i \in 1 .. RATE_MAX_REQUESTS - 1 |-> StartMs - TickMs]}

\* The slot of an invocation that has not started or has returned.
IdleCall == [pc |-> "idle", server |-> 0, forced |-> FALSE, cache |-> ZeroSnap,
             toSave |-> NoEntry, peerIssued |-> FALSE]

\* serversList: null until the directory request has ended, then the ids of
\* the active servers in the order of the response.
NoList == [known |-> FALSE, ids |-> <<>>]

List(ids) == [known |-> TRUE, ids |-> ids]

\* The onMessage invocations of one run that wait for something.
HSlots == {1, 2}

\* A handler that has not been invoked; kind is the message type, ids the
\* server ids it works on, pos the index of the id it waits for, resp the ids
\* it has answered with a predicted snapshot.
\* nowSec is the clock reading get-all takes before its first loop.
\* wait holds, for refresh-all, the slot of the promise awaited for each id.
\* For a click on the popup's refresh control read tells whether the
\* get-rate-limit message was answered and avail is the available field of
\* the answer.
NewHandler ==
    [pc |-> "new", kind |-> "", ids |-> <<>>, pos |-> 0, resp |-> {}, nowSec |-> 0,
     wait |-> <<>>, read |-> FALSE, avail |-> 0]

DoneHandler == [NewHandler EXCEPT !.pc = "done"]

\* message.server when it is not an integer (serverId is null), and the id
\* that getServerIdsSync()[0] yields for an empty directory.
NoId == -1

\* A row of the directory response: active is 1, 0, or -1 when it is not a number.
Row(id, active) == [server_id |-> id, active |-> active]

\* The bodies the servers endpoint answers with.
DirBodies == {<<Row(0, 1), Row(1, 1)>>, <<Row(0, -1), Row(1, 0)>>}

\* Variant: the rows of the response are kept whatever their active field.
activeServers_all(list) == list

\* list.filter(s => typeof s?.active === 'number' ? s.active === 1 : true)
RECURSIVE activeServers(_)
activeServers(list) ==
    IF list = <<>> THEN <<>>
    ELSE IF Head(list).active = -1 \/ Head(list).active = 1
    THEN <<Head(list)>> \o activeServers(Tail(list))
    ELSE activeServers(Tail(list))

\* list.map(s => s.server_id)
serverIds(list) == [i \in 1 .. Len(list) |-> list[i].server_id]

\* ------------------------------------------------------ the popup page
\* Period of the countdown interval of startTimer, in ms.
COUNTDOWN_TICK_MS == 1000

\* Delay of the timeout that clears the one-shot flag after a refresh, in ms.
REARM_DELAY_MS == 2000

\* An entry of the popup's last: a snapshot of the worker, with the checking
\* flag the popup adds.
Shown(snap, checking) == [snap |-> snap, checking |-> checking]

\* effectiveOpenTime(server, snapshot); lc is lastCloseTime[server], 0 when
\* it is undefined, and the result 0 stands for null.
effectiveOpenTime(lc, data) ==
    IF data.open_time # 0 /\ lc # 0 THEN Max(data.open_time, lc + COOLDOWN_GAP_SEC)
    ELSE IF data.open_time # 0 THEN data.open_time
    ELSE IF lc # 0 THEN lc + COOLDOWN_GAP_SEC
    ELSE 0

\* targetTs(server, snapshot); 0 stands for null.
targetTs(lc, data) ==
    IF data.type = "open"
    THEN IF data.open_time # 0 THEN data.open_time + OPEN_WINDOW_SEC ELSE data.close_time
    ELSE IF data.type = "announced" THEN effectiveOpenTime(lc, data)
    ELSE IF data.type = "closed"
    THEN IF data.predicted_open_time # 0
         THEN data.predicted_open_time - ANNOUNCE_WINDOW_SEC
         ELSE IF lc # 0 THEN lc + COOLDOWN_GAP_SEC ELSE 0
    ELSE 0

\* The popup before it is opened, and in the runs that leave it closed:
\* last holds no snapshot, no interval (0) and no timeout is pending.
\* awaiting counts the requestRefreshAll() calls of maybeAutoRefreshOnZero
\* that have not been answered, rearm holds the due times of the timeouts
\* that clear the flag. sent counts the refresh-all requests of
\* maybeAutoRefreshOnZero per server and armed tells whether the countdown
\* has been above 1 second since the last of them (history).
ClosedPopup ==
    [last |-> [s \in Servers |-> Shown(ZeroSnap, FALSE)],
     lastCloseTime |-> [s \in Servers |-> 0],
     refreshed |-> [s \in Servers |-> FALSE],
     interval |-> [s \in Servers |-> 0],
     awaiting |-> [s \in Servers |-> 0],
     rearm |-> [s \in Servers |-> <<>>],
     sent |-> [s \in Servers |-> 0],
     armed |-> [s \in Servers |-> TRUE]]

VARIABLES
    now,                 \* Date.now()
    caches,              \* caches[server]
    inFlight,            \* inFlight[server]: 0 for null, else the slot of the promise
    retryTimer,          \* retryTimer[server]: 0 for null, else the due time of its timer
    timers,              \* timers[server]: due times of the pending setTimeout callbacks
    globalRequestTimes,  \* the shared rate window, as stored
    storage,             \* storage.local, per server
    calls,               \* the suspended or live invocations of fetchFromAPI
    nCalls,              \* the number of invocations of fetchFromAPI so far
    emitted,             \* the update messages sent by the last step
    last,                \* what the last step did (history, read by the properties)
    serversList,         \* the memoized server directory, or null
    serversPromise,      \* whether a request to the servers endpoint is in flight
    handlers,            \* the onMessage handlers that have not answered yet
    unnotified,          \* per server: replaced since the last update message carrying it (history)
    popup                \* the state of the popup page

vars == <<now, caches, inFlight, retryTimer, timers, globalRequestTimes, storage,
          calls, nCalls, emitted, last, serversList, serversPromise, handlers,
          unnotified, popup>>

\* The state only the message handlers of the directory, get and get-all use.
dirvars == <<serversList, serversPromise, handlers>>

\* last: op is the step taken, path the branch of the code it took, server
\* and forced the arguments of the invocation, ret the snapshot the invocation
\* resolved to in this step (when it did), ra the Retry-After header of a 429,
\* ok whether the storage operation that completed succeeded, dup whether the
\* step issued a network call although a non-forced invocation for the same
\* server that overlaps this one had issued one.
\* body is the response body of the servers endpoint when the step received
\* one, delay the retry delay the step computed from ra.
NoStep == [op |-> "init", path |-> "", server |-> 0, forced |-> FALSE,
           ret |-> ZeroSnap, ra |-> NoHeader, ok |-> TRUE, dup |-> FALSE, body |-> <<>>,
           delay |-> 0]

Step(op, path, s, forced, ret) ==
    [op |-> op, path |-> path, server |-> s, forced |-> forced,
     ret |-> ret, ra |-> NoHeader, ok |-> TRUE, dup |-> FALSE, body |-> <<>>,
     delay |-> 0]

Init ==
    /\ now = StartMs
    /\ caches = [s \in Servers |-> ZeroSnap]
    /\ inFlight = [s \in Servers |-> 0]
    /\ retryTimer = [s \in Servers |-> 0]
    /\ timers = [s \in Servers |-> <<>>]
    /\ globalRequestTimes \in InitTimes
    /\ storage \in {st \in [Servers -> InitEntries] :
                       \A s \in Servers \ Polled : st[s] = NoEntry}
    /\ calls = [c \in Slots |-> IdleCall]
    /\ nCalls = 0
    /\ emitted = <<>>
    /\ last = NoStep
    /\ serversList = NoList
    /\ serversPromise = FALSE
    /\ handlers = [h \in HSlots |-> NewHandler]
    /\ unnotified = [s \in Servers |-> FALSE]
    /\ popup = ClosedPopup

\* notifyPopup(server): the message sent, with the payload read from cs.
notifyPopup(cs, s) == [server |-> s, payload |-> cs[s]]

\* Whether the step sends an update message for s whose payload is the
\* snapshot caches[s] holds after the step.
Notifies(s) ==
    \E i \in 1 .. Len(emitted') : emitted'[i].server = s /\ emitted'[i].payload = caches'[s]

\* History of the cache: a replacement of caches[s] that the step does not
\* notify sets unnotified[s], a notification carrying caches[s] clears it.
Track ==
    unnotified' = [s \in Servers |->
                     IF Notifies(s) THEN FALSE
                     ELSE IF caches'[s] # caches[s] THEN TRUE
                     ELSE unnotified[s]]

Live(c) == calls[c].pc \in {"fetch", "saveState"}

LiveCalls(s) == {c \in Slots : Live(c) /\ calls[c].server = s}

\* The slot a new invocation takes.
FreeSlot == nCalls + 1

\* ------------------------------------------------------------ retry timers
\* scheduleLocalRetry(server) at instant t, the rate window already pruned.
scheduleLocalRetry(s, times, t) ==
    IF retryTimer[s] # 0
    THEN UNCHANGED <<retryTimer, timers>>
    ELSE LET delay == Max(LOCAL_RETRY_MIN_MS, timeUntilNextSlotMs(times, t)) IN
         /\ retryTimer' = [retryTimer EXCEPT ![s] = t + delay]
         /\ timers' = [timers EXCEPT ![s] = Append(@, t + delay)]

\* Variant: a date in the header gives the time left with no floor.
retryDelayMs_noFloor(ra, t) ==
    IF ra.kind = "number" THEN Max(RETRY_AFTER_MIN_MS, ra.secs * 1000)
    ELSE IF ra.kind = "date" THEN ra.date - t
    ELSE RETRY_AFTER_DEFAULT_MS

\* The retry delay the 429 branch computes from the Retry-After header.
retryDelayMs(ra, t) ==
    IF ra.kind = "number" THEN Max(RETRY_AFTER_MIN_MS, ra.secs * 1000)
    ELSE IF ra.kind = "date" THEN Max(RETRY_AFTER_MIN_MS, ra.date - t)
    ELSE RETRY_AFTER_DEFAULT_MS

\* Variant: the 429 branch arms a timer without testing the handle.
scheduleRetryAfter_unguarded(s, delay, t) ==
    /\ retryTimer' = [retryTimer EXCEPT ![s] = t + delay]
    /\ timers' = [timers EXCEPT ![s] = Append(@, t + delay)]

\* if (!retryTimer[server]) retryTimer[server] = setTimeout(..., retryDelayMs)
scheduleRetryAfter(s, delay, t) ==
    IF retryTimer[s] # 0
    THEN UNCHANGED <<retryTimer, timers>>
    ELSE /\ retryTimer' = [retryTimer EXCEPT ![s] = t + delay]
         /\ timers' = [timers EXCEPT ![s] = Append(@, t + delay)]

\* ------------------------------------------------------------ fetchFromAPI
\* if (cache.loading && inFlight && inFlight[server]) return inFlight[server]
Coalesces(s) == caches[s].loading /\ inFlight[s] # 0

\* Lines 496-502: mark loading, notify, record the request, start the fetch.
Issue(c, s, cache, forced) ==
    /\ caches' = [caches EXCEPT ![s] = [cache EXCEPT !.loading = TRUE, !.error = "null"]]
    /\ emitted' = <<notifyPopup(caches', s)>>
    /\ globalRequestTimes' = recordRequest(globalRequestTimes, now)
    /\ inFlight' = [inFlight EXCEPT ![s] = c]
    /\ calls' = [d \in Slots |->
                   IF d = c
                   THEN [pc |-> "fetch", server |-> s, forced |-> forced, cache |-> cache,
                         toSave |-> NoEntry, peerIssued |-> FALSE]
                   ELSE IF ~forced /\ calls[d].pc = "loadState" /\ calls[d].server = s
                   THEN [calls[d] EXCEPT !.peerIssued = TRUE]
                   ELSE calls[d]]

\* Variant: a forced request is subject to the rate-limit check as well.
fetchFromAPI_gated(c, s, forced) ==
    IF Coalesces(s) \/ (forced /\ ~canMakeAutoRequest(globalRequestTimes, now))
    THEN /\ emitted' = <<>>
         /\ UNCHANGED <<caches, globalRequestTimes, inFlight, calls>>
    ELSE IF ~forced
    THEN /\ calls' = [calls EXCEPT ![c] =
                        [pc |-> "loadState", server |-> s, forced |-> FALSE,
                         cache |-> caches[s], toSave |-> NoEntry,
                         peerIssued |-> \E d \in LiveCalls(s) : ~calls[d].forced]]
         /\ emitted' = <<>>
         /\ UNCHANGED <<caches, globalRequestTimes, inFlight>>
    ELSE Issue(c, s, caches[s], TRUE)

\* fetchFromAPI({forced, server}) from its entry to its first await or return.
fetchFromAPI(c, s, forced) ==
    IF Coalesces(s)
    THEN /\ emitted' = <<>>
         /\ UNCHANGED <<caches, globalRequestTimes, inFlight, calls>>
    ELSE IF ~forced
    THEN /\ calls' = [calls EXCEPT ![c] =
                        [pc |-> "loadState", server |-> s, forced |-> FALSE,
                         cache |-> caches[s], toSave |-> NoEntry,
                         peerIssued |-> \E d \in LiveCalls(s) : ~calls[d].forced]]
         /\ emitted' = <<>>
         /\ UNCHANGED <<caches, globalRequestTimes, inFlight>>
    ELSE Issue(c, s, caches[s], TRUE)

EntryPath(s, forced) ==
    IF Coalesces(s) THEN "coalesced" ELSE IF forced THEN "issued" ELSE "suspended"

\* fetchFromAPI({forced, server}) started in slot c by a refresh message.
Refresh(c, s, forced) ==
    /\ fetchFromAPI(c, s, forced)
    /\ last' = Step("refresh", EntryPath(s, forced), s, forced, ZeroSnap)
    /\ UNCHANGED <<now, retryTimer, timers, storage>>
    /\ UNCHANGED dirvars
    /\ Track
    /\ UNCHANGED popup

\* fetchFromAPI({forced: false, server: s}) called in slot c while the
\* invocations are cs: the in-flight promise is returned, or the invocation
\* suspends in loadState (the caller does not await it).
AlarmCall(cs, c, s) ==
    IF Coalesces(s) THEN cs
    ELSE [cs EXCEPT ![c] =
            [pc |-> "loadState", server |-> s, forced |-> FALSE,
             cache |-> caches[s], toSave |-> NoEntry,
             peerIssued |-> \E d \in LiveCalls(s) : ~calls[d].forced]]

\* Variant: the alarm refreshes server 0 only.
OnAlarm_firstOnly ==
    /\ FreeSlot + 1 \in Slots
    /\ nCalls' = nCalls + 2
    /\ calls' = AlarmCall(calls, FreeSlot, 0)
    /\ emitted' = <<>>
    /\ last' = Step("alarm", "", 0, FALSE, ZeroSnap)
    /\ UNCHANGED <<now, caches, globalRequestTimes, inFlight, retryTimer, timers, storage>>
    /\ UNCHANGED dirvars
    /\ Track
    /\ UNCHANGED popup

\* chrome.alarms.onAlarm for 'event-peeper:tick': fetchFromAPI({forced: false,
\* server: 0}) and then fetchFromAPI({forced: false, server: 1}).
OnAlarm ==
    /\ FreeSlot + 1 \in Slots
    /\ nCalls' = nCalls + 2
    /\ calls' = AlarmCall(AlarmCall(calls, FreeSlot, 0), FreeSlot + 1, 1)
    /\ emitted' = <<>>
    /\ last' = Step("alarm", "", 0, FALSE, ZeroSnap)
    /\ UNCHANGED <<now, caches, globalRequestTimes, inFlight, retryTimer, timers, storage>>
    /\ UNCHANGED dirvars
    /\ Track
    /\ UNCHANGED popup

\* onMessage 'event-peeper:refresh': fetchFromAPI({forced: !!forced, server: id}).
OnRefresh(s, forced) ==
    /\ FreeSlot \in Slots
    /\ nCalls' = nCalls + 1
    /\ Refresh(FreeSlot, s, forced)

\* Variant: the timer callback repeats the request as a forced one.
RetryCallback_forced(c, s, i) ==
    /\ i \in 1 .. Len(timers[s])
    /\ timers[s][i] <= now
    /\ timers' = [timers EXCEPT ![s] = SubSeq(@, 1, i - 1) \o SubSeq(@, i + 1, Len(@))]
    /\ retryTimer' = [retryTimer EXCEPT ![s] = 0]
    /\ fetchFromAPI(c, s, TRUE)
    /\ last' = Step("timer", EntryPath(s, TRUE), s, TRUE, ZeroSnap)
    /\ UNCHANGED <<now, storage>>
    /\ UNCHANGED dirvars
    /\ Track
    /\ UNCHANGED popup

\* The callback of the i-th pending timer of s, its fetchFromAPI in slot c:
\* clear the handle, then fetchFromAPI({forced: false, server}).
RetryCallback(c, s, i) ==
    /\ i \in 1 .. Len(timers[s])
    /\ timers[s][i] <= now
    /\ timers' = [timers EXCEPT ![s] = SubSeq(@, 1, i - 1) \o SubSeq(@, i + 1, Len(@))]
    /\ retryTimer' = [retryTimer EXCEPT ![s] = 0]
    /\ fetchFromAPI(c, s, FALSE)
    /\ last' = Step("timer", EntryPath(s, FALSE), s, FALSE, ZeroSnap)
    /\ UNCHANGED <<now, storage>>
    /\ UNCHANGED dirvars
    /\ Track
    /\ UNCHANGED popup

\* A retry timer that is due fires.
TimerFire(s, i) ==
    /\ FreeSlot \in Slots
    /\ nCalls' = nCalls + 1
    /\ RetryCallback(FreeSlot, s, i)

\* loadState(server) when storage.local holds st: the value under the key of
\* the server, or null (NoEntry) when the key is not in the store or, with
\* ok = FALSE, when storage.local.get rejected.
loadState(st, s, ok) == IF ok /\ s \in DOMAIN st THEN st[s] ELSE NoEntry

\* The prediction of lines 468-472 from what loadState returned.
Predicted(saved, t) ==
    IF saved.present THEN predictState(saved.data.data, t \div 1000) ELSE NullRec

\* Variant: a missing entry counts as a prediction that needs no query.
UsePrediction_missingOk(saved, t) ==
    \/ ~saved.present
    \/ /\ saved.data.data.type # "null"
       /\ Predicted(saved, t).type # "null"
       /\ ~needsApiQuery(Predicted(saved, t), t \div 1000)

UsePrediction(saved, t) ==
    /\ saved.present
    /\ saved.data.data.type # "null"
    /\ Predicted(saved, t).type # "null"
    /\ ~needsApiQuery(Predicted(saved, t), t \div 1000)

\* Variant: lastUpdated is always the current time.
PredictionSnapshot_now(saved, t) == Snap(Predicted(saved, t), FALSE, t)

\* The snapshot of lines 473-478: lastUpdated is savedState.savedAt || Date.now().
PredictionSnapshot(saved, t) ==
    Snap(Predicted(saved, t), FALSE, IF saved.savedAt # 0 THEN saved.savedAt ELSE t)

\* fetchFromAPI resumes after await loadState(server); ok = FALSE when
\* storage.local.get rejected (loadState then returns null).
LoadStateDone(c, ok) ==
    /\ calls[c].pc = "loadState"
    /\ LET s == calls[c].server
           cache == calls[c].cache
           saved == loadState(storage, s, ok)
       IN
       IF UsePrediction(saved, now)
       THEN LET snap == PredictionSnapshot(saved, now) IN
            /\ caches' = [caches EXCEPT ![s] = snap]
            /\ emitted' = <<notifyPopup(caches', s)>>
            /\ calls' = [calls EXCEPT ![c] = IdleCall]
            /\ last' = [Step("loadState", "predicted", s, FALSE, snap) EXCEPT !.ok = ok]
            /\ UNCHANGED <<globalRequestTimes, inFlight, retryTimer, timers>>
       ELSE IF ~canMakeAutoRequest(globalRequestTimes, now)
       THEN /\ globalRequestTimes' = pruneOld(globalRequestTimes, now)
            /\ emitted' = <<notifyPopup(caches, s)>>
            /\ scheduleLocalRetry(s, globalRequestTimes', now)
            /\ calls' = [calls EXCEPT ![c] = IdleCall]
            /\ last' = [Step("loadState", "denied", s, FALSE, cache) EXCEPT !.ok = ok]
            /\ UNCHANGED <<caches, inFlight>>
       ELSE /\ Issue(c, s, cache, FALSE)
            /\ last' = [Step("loadState", "issued", s, FALSE, ZeroSnap)
                          EXCEPT !.ok = ok, !.dup = calls[c].peerIssued]
            /\ UNCHANGED <<retryTimer, timers>>
    /\ UNCHANGED <<now, storage, nCalls>>
    /\ UNCHANGED dirvars
    /\ Track
    /\ UNCHANGED popup

\* Variant: a failure resets the snapshot instead of keeping the captured one.
Settled_reset(cache) == ZeroSnap

\* Variant: a failure stores a message in the error field, as the first
\* revision of the worker does.
Settled_withError(cache) == [cache EXCEPT !.loading = FALSE, !.error = "failed"]

\* {...cache, loading: false} of the 429 branch and of the catch block.
Settled(cache) == [cache EXCEPT !.loading = FALSE]

\* Variant: the finally block leaves the in-flight marker in place.
Finally_keepMarker(c, s) ==
    /\ calls' = [calls EXCEPT ![c] = IdleCall]
    /\ UNCHANGED inFlight

\* The finally block: notifyPopup(server); inFlight[server] = null.
Finally(c, s) ==
    /\ inFlight' = [inFlight EXCEPT ![s] = 0]
    /\ calls' = [calls EXCEPT ![c] = IdleCall]

\* The network call of slot c ends with HTTP 429 and the header ra.
Fetch429(c, ra) ==
    /\ calls[c].pc = "fetch"
    /\ LET s == calls[c].server
           snap == Settled(calls[c].cache)
       IN
       /\ caches' = [caches EXCEPT ![s] = snap]
       /\ scheduleRetryAfter(s, retryDelayMs(ra, now), now)
       /\ emitted' = <<notifyPopup(caches', s), notifyPopup(caches', s)>>
       /\ Finally(c, s)
       /\ last' = [Step("fetch", "429", s, calls[c].forced, snap)
                     EXCEPT !.ra = ra, !.delay = retryDelayMs(ra, now)]
    /\ UNCHANGED <<now, globalRequestTimes, storage, nCalls>>
    /\ UNCHANGED dirvars
    /\ Track
    /\ UNCHANGED popup

\* The network call of slot c ends in the catch block: a non-2xx status other
\* than 429, a rejected fetch, or a body that res.json() rejects.
FetchFail(c, kind) ==
    /\ calls[c].pc = "fetch"
    /\ LET s == calls[c].server
           snap == Settled(calls[c].cache)
       IN
       /\ caches' = [caches EXCEPT ![s] = snap]
       /\ emitted' = <<notifyPopup(caches', s)>>
       /\ Finally(c, s)
       /\ last' = Step("fetch", kind, s, calls[c].forced, snap)
    /\ UNCHANGED <<now, globalRequestTimes, storage, retryTimer, timers, nCalls>>
    /\ UNCHANGED dirvars
    /\ Track
    /\ UNCHANGED popup

\* The network call of slot c ends with a 2xx response and the body data:
\* the cache is replaced and saveState is awaited.
FetchOk(c, data) ==
    /\ calls[c].pc = "fetch"
    /\ LET s == calls[c].server
           snap == Snap(data, FALSE, now)
       IN
       /\ caches' = [caches EXCEPT ![s] = snap]
       /\ calls' = [calls EXCEPT ![c].pc = "saveState", ![c].toSave = Entry(snap, now)]
       /\ emitted' = <<>>
       /\ last' = Step("fetch", "ok", s, calls[c].forced, ZeroSnap)
    /\ UNCHANGED <<now, globalRequestTimes, storage, retryTimer, timers, inFlight,
                   nCalls>>
    /\ UNCHANGED dirvars
    /\ Track
    /\ UNCHANGED popup

\* Variant: saveState writes the value under the key of every server.
SaveStateDone_everyKey(c, ok) ==
    /\ calls[c].pc = "saveState"
    /\ LET s == calls[c].server IN
       /\ storage' = IF ok THEN [x \in Servers |-> calls[c].toSave] ELSE storage
       /\ emitted' = <<notifyPopup(caches, s)>>
       /\ Finally(c, s)
       /\ last' = [Step("saveState", "returned", s, calls[c].forced, caches[s])
                     EXCEPT !.ok = ok]
    /\ UNCHANGED <<now, caches, globalRequestTimes, retryTimer, timers, nCalls>>
    /\ UNCHANGED dirvars
    /\ Track
    /\ UNCHANGED popup

\* The network promise resumes after await saveState(...); ok = FALSE when
\* storage.local.set rejected (saveState logs and returns).
SaveStateDone(c, ok) ==
    /\ calls[c].pc = "saveState"
    /\ LET s == calls[c].server IN
       /\ storage' = IF ok THEN [storage EXCEPT ![s] = calls[c].toSave] ELSE storage
       /\ emitted' = <<notifyPopup(caches, s)>>
       /\ Finally(c, s)
       /\ last' = [Step("saveState", "returned", s, calls[c].forced, caches[s])
                     EXCEPT !.ok = ok]
    /\ UNCHANGED <<now, caches, globalRequestTimes, retryTimer, timers, nCalls>>
    /\ UNCHANGED dirvars
    /\ Track
    /\ UNCHANGED popup

\* Date.now() advances.
Tick ==
    /\ now + TickMs <= StartMs + MaxTicks * TickMs
    /\ now' = now + TickMs
    /\ emitted' = <<>>
    /\ last' = Step("tick", "", 0, FALSE, ZeroSnap)
    /\ UNCHANGED <<caches, inFlight, retryTimer, timers, globalRequestTimes, storage,
                   calls, nCalls>>
    /\ UNCHANGED dirvars
    /\ Track
    /\ UNCHANGED popup

Next ==
    \/ \E s \in Polled, forced \in BOOLEAN : OnRefresh(s, forced)
    \/ \E s \in Servers, i \in Slots : TimerFire(s, i)
    \/ \E c \in Slots, ok \in BOOLEAN : LoadStateDone(c, ok)
    \/ \E c \in Slots, ra \in RetryAfterHeaders : Fetch429(c, ra)
    \/ \E c \in Slots, kind \in FailKinds : FetchFail(c, kind)
    \/ \E c \in Slots, data \in ApiBodies : FetchOk(c, data)
    \/ \E c \in Slots, ok \in BOOLEAN : SaveStateDone(c, ok)
    \/ Tick

Spec == Init /\ [][Next]_vars

\* ------------------------------------------- an unending stream of requests
\* Runs in which refresh messages keep arriving while the events API fails.
\* The clock is read relative to the present: instead of now growing, every
\* stored instant moves back by TickMs, and an instant at or before Horizon
\* stays there (a stamp that old is pruned before it is read, a timer that
\* old is due).
Horizon == StartMs - RATE_WINDOW_MS - 1

Elapse(t) == Max(t - TickMs, Horizon)

\* The invocations that may be in progress at a time; a slot is taken again
\* once its invocation has returned.
StreamSlots == {1, 2}

\* The requests the popup sends per rate window: its click handler refreshes
\* only while getRateLimitStatus().available leaves room.
StreamBudget == 3

StreamInit ==
    /\ Init
    /\ globalRequestTimes = <<>>
    /\ storage = [s \in Servers |-> NoEntry]

StreamRefresh(c, s, forced) ==
    /\ calls[c].pc = "idle"
    /\ getRateLimitStatus(globalRequestTimes, now).used < StreamBudget
    /\ Refresh(c, s, forced)
    /\ UNCHANGED nCalls

StreamTimerFire(c, s, i) ==
    /\ calls[c].pc = "idle"
    /\ RetryCallback(c, s, i)
    /\ UNCHANGED nCalls

\* Date.now() advances by TickMs.
StreamTick ==
    /\ globalRequestTimes' =
           [i \in 1 .. Len(globalRequestTimes) |-> Elapse(globalRequestTimes[i])]
    /\ timers' = [s \in Servers |->
                     [i \in 1 .. Len(timers[s]) |-> Elapse(timers[s][i])]]
    /\ retryTimer' = [s \in Servers |->
                         IF retryTimer[s] = 0 THEN 0 ELSE Elapse(retryTimer[s])]
    /\ emitted' = <<>>
    /\ last' = Step("tick", "", 0, FALSE, ZeroSnap)
    /\ UNCHANGED <<now, caches, inFlight, storage, calls, nCalls>>
    /\ UNCHANGED dirvars
    /\ Track
    /\ UNCHANGED popup

StreamNext ==
    \/ \E c \in StreamSlots, s \in Polled, forced \in BOOLEAN : StreamRefresh(c, s, forced)
    \/ \E c \in StreamSlots, s \in Servers, i \in Slots : StreamTimerFire(c, s, i)
    \/ \E c \in StreamSlots, ok \in BOOLEAN : LoadStateDone(c, ok)
    \/ \E c \in StreamSlots, ra \in RetryAfterHeaders : Fetch429(c, ra)
    \/ \E c \in StreamSlots, kind \in FailKinds : FetchFail(c, kind)
    \/ StreamTick

\* Every awaited storage read and every network call completes.
StreamCompletes ==
    \A c \in StreamSlots :
        /\ WF_vars(\E ok \in BOOLEAN : LoadStateDone(c, ok))
        /\ WF_vars(\/ \E ra \in RetryAfterHeaders : Fetch429(c, ra)
                   \/ \E kind \in FailKinds : FetchFail(c, kind))

SpecStream == StreamInit /\ [][StreamNext]_vars /\ StreamCompletes

\* ------------------------------------------------- the rate limiter alone
\* The clock of the rate-limiter model advances by RLTickMs per step.
RLTickMs == 2500

\* Number of clock steps of the rate-limiter model.
RLMaxTicks == 5

\* Cap on the stored length of globalRequestTimes in the rate-limiter model
\* (the code has none).
RLMaxTimes == 11

RLInit ==
    /\ Init
    /\ globalRequestTimes = <<>>
    /\ storage = [s \in Servers |-> NoEntry]

RLUnchanged ==
    UNCHANGED <<caches, inFlight, retryTimer, timers, storage, calls, nCalls, dirvars>>

\* The limiter's part of a forced fetchFromAPI: recordRequest(), no check.
RLForced ==
    /\ Len(recordRequest(globalRequestTimes, now)) <= RLMaxTimes
    /\ globalRequestTimes' = recordRequest(globalRequestTimes, now)
    /\ last' = Step("record", "forced", 0, TRUE, ZeroSnap)
    /\ emitted' = <<>>
    /\ now' = now
    /\ RLUnchanged
    /\ Track
    /\ UNCHANGED popup

\* The limiter's part of a non-forced fetchFromAPI that reaches line 488:
\* canMakeAutoRequest(), then recordRequest() or the denial.
RLAuto ==
    /\ IF canMakeAutoRequest(globalRequestTimes, now)
       THEN /\ globalRequestTimes' = recordRequest(globalRequestTimes, now)
            /\ last' = Step("record", "auto", 0, FALSE, ZeroSnap)
       ELSE /\ globalRequestTimes' = pruneOld(globalRequestTimes, now)
            /\ last' = Step("deny", "auto", 0, FALSE, ZeroSnap)
    /\ emitted' = <<>>
    /\ now' = now
    /\ RLUnchanged
    /\ Track
    /\ UNCHANGED popup

\* onMessage 'event-peeper:get-rate-limit': getRateLimitStatus() prunes.
RLStatus ==
    /\ globalRequestTimes' = pruneOld(globalRequestTimes, now)
    /\ last' = Step("status", "", 0, FALSE, ZeroSnap)
    /\ emitted' = <<>>
    /\ now' = now
    /\ RLUnchanged
    /\ Track
    /\ UNCHANGED popup

RLTick ==
    /\ now + RLTickMs <= StartMs + RLMaxTicks * RLTickMs
    /\ now' = now + RLTickMs
    /\ last' = Step("tick", "", 0, FALSE, ZeroSnap)
    /\ emitted' = <<>>
    /\ UNCHANGED globalRequestTimes
    /\ RLUnchanged
    /\ Track
    /\ UNCHANGED popup

RLNext == RLForced \/ RLAuto \/ RLStatus \/ RLTick

SpecRL == RLInit /\ [][RLNext]_vars

\* ------------------------------------------------------ message handlers
\* The slot an onMessage invocation takes: the first one not used yet.
FreeHandler ==
    CHOOSE h \in HSlots \cup {0} :
        IF \E g \in HSlots : handlers[g].pc = "new"
        THEN /\ h \in HSlots
             /\ handlers[h].pc = "new"
             /\ \A g \in HSlots : handlers[g].pc = "new" => h <= g
        ELSE h = 0

\* fetchServersOnce() up to its return: the memoized list, the pending
\* promise, or a new request to the servers endpoint.
fetchServersOnce ==
    /\ serversPromise' = (serversPromise \/ ~serversList.known)
    /\ UNCHANGED serversList

\* getServerIdsSync()
getServerIdsSync == IF serversList.known THEN serversList.ids ELSE <<>>

\* A handler that calls fetchServersOnce().then(...): kind is the message type.
OnDirectoryMessage(kind) ==
    /\ kind \in {"get-servers", "get-all"}
    /\ FreeHandler # 0
    /\ fetchServersOnce
    /\ handlers' = [handlers EXCEPT ![FreeHandler] =
                      [NewHandler EXCEPT !.pc = "dir", !.kind = kind]]
    /\ emitted' = <<>>
    /\ last' = Step(kind, "started", 0, FALSE, ZeroSnap)
    /\ UNCHANGED <<now, caches, inFlight, retryTimer, timers, globalRequestTimes,
                   storage, calls, nCalls>>
    /\ Track
    /\ UNCHANGED popup

\* Variant: a failed request to the servers endpoint leaves the list unknown.
DirFetchDone_forget(ok, body) ==
    /\ serversPromise
    /\ serversList' = IF ok THEN List(serverIds(activeServers(body))) ELSE NoList
    /\ serversPromise' = FALSE
    /\ emitted' = <<>>
    /\ last' = [Step("directory", IF ok THEN "ok" ELSE "failed", 0, FALSE, ZeroSnap)
                  EXCEPT !.ok = ok, !.body = IF ok THEN body ELSE <<>>]
    /\ UNCHANGED <<now, caches, inFlight, retryTimer, timers, globalRequestTimes,
                   storage, calls, nCalls, handlers>>
    /\ Track
    /\ UNCHANGED popup

\* The request to the servers endpoint ends: ok with a body, or in the catch
\* block, which memoizes the empty list.
DirFetchDone(ok, body) ==
    /\ serversPromise
    /\ serversList' = IF ok THEN List(serverIds(activeServers(body))) ELSE List(<<>>)
    /\ serversPromise' = FALSE
    /\ emitted' = <<>>
    /\ last' = [Step("directory", IF ok THEN "ok" ELSE "failed", 0, FALSE, ZeroSnap)
                  EXCEPT !.ok = ok, !.body = IF ok THEN body ELSE <<>>]
    /\ UNCHANGED <<now, caches, inFlight, retryTimer, timers, globalRequestTimes,
                   storage, calls, nCalls, handlers>>
    /\ Track
    /\ UNCHANGED popup

\* The then-callback of fetchServersOnce() in handler h runs with the list:
\* get-servers answers; get-all reads the clock and awaits loadState of the
\* first id, or answers {} for an empty list.
DirResolved(h) ==
    /\ handlers[h].pc = "dir"
    /\ handlers[h].kind \in {"get-servers", "get-all"}
    /\ serversList.known
    /\ serversPromise = FALSE
    /\ LET ids == serversList.ids IN
       handlers' = [handlers EXCEPT ![h] =
                      IF handlers[h].kind = "get-all" /\ ids # <<>>
                      THEN [@ EXCEPT !.pc = "allLoad1", !.ids = ids, !.pos = 1,
                                     !.nowSec = now \div 1000]
                      ELSE DoneHandler]
    /\ emitted' = <<>>
    /\ last' = Step(handlers[h].kind, "list", 0, FALSE, ZeroSnap)
    /\ UNCHANGED <<now, caches, inFlight, retryTimer, timers, globalRequestTimes,
                   storage, calls, nCalls, serversList, serversPromise>>
    /\ Track
    /\ UNCHANGED popup

\* Whether loadState returned an entry with an event record.
HasRecord(saved) == saved.present /\ saved.data.data.type # "null"

\* onMessage 'event-peeper:get' up to loadState(id): id is message.server or
\* the first id of the directory.
OnGet(sid) ==
    /\ FreeHandler # 0
    /\ LET ids == getServerIdsSync
           id == IF sid # NoId THEN sid ELSE IF ids # <<>> THEN ids[1] ELSE NoId
       IN
       handlers' = [handlers EXCEPT ![FreeHandler] =
                      [NewHandler EXCEPT !.pc = "getLoad", !.kind = "get",
                                         !.ids = <<id>>, !.pos = 1]]
    /\ emitted' = <<>>
    /\ last' = Step("get", "started", 0, FALSE, ZeroSnap)
    /\ UNCHANGED <<now, caches, inFlight, retryTimer, timers, globalRequestTimes,
                   storage, calls, nCalls, serversList, serversPromise>>
    /\ Track
    /\ UNCHANGED popup

\* Variant: the get handler persists the snapshot it predicted.
GetLoaded_persist(h, ok) ==
    /\ handlers[h].pc = "getLoad"
    /\ LET id == handlers[h].ids[1]
           saved == loadState(storage, id, ok)
       IN
       IF UsePrediction(saved, now)
       THEN LET snap == PredictionSnapshot(saved, now) IN
            /\ caches' = [caches EXCEPT ![id] = snap]
            /\ storage' = [storage EXCEPT ![id] = Entry(snap, now)]
            /\ emitted' = <<>>
            /\ last' = [Step("get", "predicted", id, FALSE, snap) EXCEPT !.ok = ok]
            /\ UNCHANGED <<inFlight, globalRequestTimes, calls, nCalls>>
       ELSE IF id = NoId
       THEN /\ emitted' = <<>>
            /\ last' = [Step("get", "cache", 0, FALSE, ZeroSnap) EXCEPT !.ok = ok]
            /\ UNCHANGED <<caches, inFlight, globalRequestTimes, calls, nCalls, storage>>
       ELSE /\ FreeSlot \in Slots
            /\ nCalls' = nCalls + 1
            /\ fetchFromAPI(FreeSlot, id, FALSE)
            /\ last' = [Step("get", EntryPath(id, FALSE), id, FALSE, caches[id])
                          EXCEPT !.ok = ok]
            /\ UNCHANGED storage
    /\ handlers' = [handlers EXCEPT ![h] = DoneHandler]
    /\ UNCHANGED <<now, retryTimer, timers, serversList, serversPromise>>
    /\ Track
    /\ UNCHANGED popup

\* The then-callback of loadState(id) in the get handler: answer with the
\* prediction and store it, or answer with the cache and start a non-forced
\* fetchFromAPI when id is a number.
GetLoaded(h, ok) ==
    /\ handlers[h].pc = "getLoad"
    /\ LET id == handlers[h].ids[1]
           saved == loadState(storage, id, ok)
       IN
       IF UsePrediction(saved, now)
       THEN LET snap == PredictionSnapshot(saved, now) IN
            /\ caches' = [caches EXCEPT ![id] = snap]
            /\ emitted' = <<>>
            /\ last' = [Step("get", "predicted", id, FALSE, snap) EXCEPT !.ok = ok]
            /\ UNCHANGED <<inFlight, globalRequestTimes, calls, nCalls>>
       ELSE IF id = NoId
       THEN /\ emitted' = <<>>
            /\ last' = [Step("get", "cache", 0, FALSE, ZeroSnap) EXCEPT !.ok = ok]
            /\ UNCHANGED <<caches, inFlight, globalRequestTimes, calls, nCalls>>
       ELSE /\ FreeSlot \in Slots
            /\ nCalls' = nCalls + 1
            /\ fetchFromAPI(FreeSlot, id, FALSE)
            /\ last' = [Step("get", EntryPath(id, FALSE), id, FALSE, caches[id])
                          EXCEPT !.ok = ok]
    /\ handlers' = [handlers EXCEPT ![h] = DoneHandler]
    /\ UNCHANGED <<now, retryTimer, timers, storage, serversList, serversPromise>>
    /\ Track
    /\ UNCHANGED popup

\* The first loop of get-all resumes after await loadState(id): the entry is
\* predicted with the current clock, needsApiQuery is asked with the clock
\* read before the loop. After the last id the response is sent and the
\* second loop awaits loadState of the first id.
AllLoaded1(h, ok) ==
    /\ handlers[h].pc = "allLoad1"
    /\ LET H == handlers[h]
           id == H.ids[H.pos]
           saved == loadState(storage, id, ok)
           use == /\ HasRecord(saved)
                  /\ Predicted(saved, now).type # "null"
                  /\ ~needsApiQuery(Predicted(saved, now), H.nowSec)
           snap == PredictionSnapshot(saved, now)
           more == H.pos < Len(H.ids)
       IN
       /\ caches' = IF use THEN [caches EXCEPT ![id] = snap] ELSE caches
       /\ handlers' = [handlers EXCEPT ![h] =
                         [@ EXCEPT !.resp = IF use THEN @ \cup {id} ELSE @,
                                   !.pos = IF more THEN @ + 1 ELSE 1,
                                   !.pc = IF more THEN "allLoad1" ELSE "allLoad2"]]
       /\ last' = [Step("get-all", IF use THEN "predicted" ELSE "cache", id, FALSE,
                        IF use THEN snap ELSE caches[id]) EXCEPT !.ok = ok]
    /\ emitted' = <<>>
    /\ UNCHANGED <<now, inFlight, retryTimer, timers, globalRequestTimes, storage,
                   calls, nCalls, serversList, serversPromise>>
    /\ Track
    /\ UNCHANGED popup

\* Variant: the second loop of get-all starts a fetchFromAPI for every id.
AllLoaded2_everyServer(h, ok) ==
    /\ handlers[h].pc = "allLoad2"
    /\ LET H == handlers[h]
           id == H.ids[H.pos]
       IN
       /\ FreeSlot \in Slots
       /\ nCalls' = nCalls + 1
       /\ fetchFromAPI(FreeSlot, id, FALSE)
       /\ last' = [Step("get-all", EntryPath(id, FALSE), id, FALSE, ZeroSnap)
                     EXCEPT !.ok = ok]
       /\ handlers' = [handlers EXCEPT ![h] =
                         IF H.pos < Len(H.ids) THEN [@ EXCEPT !.pos = @ + 1]
                         ELSE DoneHandler]
    /\ UNCHANGED <<now, retryTimer, timers, storage, serversList, serversPromise>>
    /\ Track
    /\ UNCHANGED popup

\* The second loop of get-all resumes after await loadState(id): a non-forced
\* fetchFromAPI is started when there is no event record or needsApiQuery
\* holds for the prediction.
AllLoaded2(h, ok) ==
    /\ handlers[h].pc = "allLoad2"
    /\ LET H == handlers[h]
           id == H.ids[H.pos]
           saved == loadState(storage, id, ok)
           fetch == \/ ~HasRecord(saved)
                    \/ needsApiQuery(Predicted(saved, now), now \div 1000)
       IN
       /\ IF fetch
          THEN /\ FreeSlot \in Slots
               /\ nCalls' = nCalls + 1
               /\ fetchFromAPI(FreeSlot, id, FALSE)
               /\ last' = [Step("get-all", EntryPath(id, FALSE), id, FALSE, ZeroSnap)
                             EXCEPT !.ok = ok]
          ELSE /\ emitted' = <<>>
               /\ last' = [Step("get-all", "nofetch", id, FALSE, ZeroSnap)
                             EXCEPT !.ok = ok]
               /\ UNCHANGED <<caches, inFlight, globalRequestTimes, calls, nCalls>>
       /\ handlers' = [handlers EXCEPT ![h] =
                         IF H.pos < Len(H.ids) THEN [@ EXCEPT !.pos = @ + 1]
                         ELSE DoneHandler]
    /\ UNCHANGED <<now, retryTimer, timers, storage, serversList, serversPromise>>
    /\ Track
    /\ UNCHANGED popup

\* The runs with message handlers start with RATE_MAX_REQUESTS - 1 fresh
\* stamps in the rate window, so that a first automatic request is issued
\* and a second one is denied.
MsgInit ==
    /\ Init
    /\ globalRequestTimes # <<>>

\* The outcomes of a network call in the runs with message handlers.
MsgHeaders == {Header("number", 1, 0)}

MsgFailKinds == {"networkError"}

MsgBodies == {Announced("E", StartSec + TickMs \div 1000)}

\* Date.now() advances once in these runs, which makes the retry timer of a
\* local denial or of a 429 due.
MsgTick ==
    /\ now = StartMs
    /\ Tick

\* The messages, timers and continuations of the scheduler with the get,
\* get-all, get-servers and get-rate-limit handlers.
MsgNext ==
    \/ \E sid \in Polled \cup {NoId} : OnGet(sid)
    \/ \E kind \in {"get-servers", "get-all"} : OnDirectoryMessage(kind)
    \/ \E ok \in BOOLEAN, body \in DirBodies : DirFetchDone(ok, body)
    \/ \E h \in HSlots : DirResolved(h)
    \/ \E h \in HSlots, ok \in BOOLEAN : GetLoaded(h, ok)
    \/ \E h \in HSlots, ok \in BOOLEAN : AllLoaded1(h, ok)
    \/ \E h \in HSlots, ok \in BOOLEAN : AllLoaded2(h, ok)
    \/ RLStatus
    \/ \E s \in Servers, i \in Slots : TimerFire(s, i)
    \/ \E c \in Slots, ok \in BOOLEAN : LoadStateDone(c, ok)
    \/ \E c \in Slots, ra \in MsgHeaders : Fetch429(c, ra)
    \/ \E c \in Slots, kind \in MsgFailKinds : FetchFail(c, kind)
    \/ \E c \in Slots, data \in MsgBodies : FetchOk(c, data)
    \/ \E c \in Slots, ok \in BOOLEAN : SaveStateDone(c, ok)
    \/ MsgTick

SpecMsg == MsgInit /\ [][MsgNext]_vars

\* --------------------------------------- refresh-all and the popup's click
\* recordRequest() called k times at instant t.
RECURSIVE recordRequests(_, _, _)
recordRequests(times, t, k) ==
    IF k = 0 THEN times ELSE recordRequests(recordRequest(times, t), t, k - 1)

\* The ids of the sequence for which a forced fetchFromAPI is not coalesced.
Issuing(ids) == SelectSeq(ids, LAMBDA s : ~Coalesces(s))

\* The click handler of the refresh control up to the answer of
\* requestRateLimitStatus(): the worker answers 'event-peeper:get-rate-limit'
\* with getRateLimitStatus(), or, with ok = FALSE, the message gets no answer
\* and the popup goes on with {used: 0, max: 10}.
OnClick(ok) ==
    /\ FreeHandler # 0
    /\ globalRequestTimes' = IF ok THEN pruneOld(globalRequestTimes, now)
                             ELSE globalRequestTimes
    /\ handlers' = [handlers EXCEPT ![FreeHandler] =
                      [NewHandler EXCEPT
                         !.pc = "clicked", !.kind = "click", !.read = ok,
                         !.avail = IF ok
                                   THEN getRateLimitStatus(globalRequestTimes, now).available
                                   ELSE 0]]
    /\ emitted' = <<>>
    /\ last' = [Step("click", IF ok THEN "status" ELSE "nostatus", 0, FALSE, ZeroSnap)
                  EXCEPT !.ok = ok]
    /\ UNCHANGED <<now, caches, inFlight, retryTimer, timers, storage, calls, nCalls,
                   serversList, serversPromise>>
    /\ Track
    /\ UNCHANGED popup

\* The click handler resumes with the status: it returns when
\* currentLimit.available <= 0 (false for the undefined field of an
\* unanswered request), otherwise it sends 'event-peeper:refresh-all', whose
\* handler calls fetchServersOnce().
ClickResumes(h) ==
    /\ handlers[h].pc = "clicked"
    /\ IF handlers[h].read /\ handlers[h].avail <= 0
       THEN /\ handlers' = [handlers EXCEPT ![h] = DoneHandler]
            /\ last' = Step("click", "blocked", 0, FALSE, ZeroSnap)
            /\ UNCHANGED <<serversList, serversPromise>>
       ELSE /\ fetchServersOnce
            /\ handlers' = [handlers EXCEPT ![h] =
                              [NewHandler EXCEPT !.pc = "dir", !.kind = "refresh-all"]]
            /\ last' = Step("refresh-all", "started", 0, FALSE, ZeroSnap)
    /\ emitted' = <<>>
    /\ UNCHANGED <<now, caches, inFlight, retryTimer, timers, globalRequestTimes,
                   storage, calls, nCalls>>
    /\ Track
    /\ UNCHANGED popup

\* The then-callback of fetchServersOnce() in the refresh-all handler h:
\* fetchFromAPI({forced: true, server: id}) for every id of the list, the
\* i-th one in slot nCalls + i, and Promise.all of the promises returned.
RefreshAllResolved(h) ==
    /\ handlers[h].pc = "dir"
    /\ handlers[h].kind = "refresh-all"
    /\ serversList.known
    /\ serversPromise = FALSE
    /\ LET ids == serversList.ids
           slot(s) == nCalls + CHOOSE i \in 1 .. Len(ids) : ids[i] = s
           issued(s) == (\E i \in 1 .. Len(ids) : ids[i] = s) /\ ~Coalesces(s)
       IN
       /\ \A i \in 1 .. Len(ids) : nCalls + i \in Slots
       /\ nCalls' = nCalls + Len(ids)
       /\ caches' = [s \in Servers |->
                       IF issued(s)
                       THEN [caches[s] EXCEPT !.loading = TRUE, !.error = "null"]
                       ELSE caches[s]]
       /\ emitted' = [i \in 1 .. Len(Issuing(ids)) |-> notifyPopup(caches', Issuing(ids)[i])]
       /\ globalRequestTimes' = recordRequests(globalRequestTimes, now, Len(Issuing(ids)))
       /\ inFlight' = [s \in Servers |-> IF issued(s) THEN slot(s) ELSE inFlight[s]]
       /\ calls' = [c \in Slots |->
                      IF \E s \in Servers : issued(s) /\ slot(s) = c
                      THEN LET s == CHOOSE x \in Servers : issued(x) /\ slot(x) = c IN
                           [pc |-> "fetch", server |-> s, forced |-> TRUE,
                            cache |-> caches[s], toSave |-> NoEntry, peerIssued |-> FALSE]
                      ELSE calls[c]]
       /\ handlers' = [handlers EXCEPT ![h] =
                         [@ EXCEPT !.pc = "refreshWait", !.ids = ids,
                                   !.wait = [i \in 1 .. Len(ids) |->
                                               IF Coalesces(ids[i]) THEN inFlight[ids[i]]
                                               ELSE nCalls + i]]]
       /\ last' = Step("refresh-all", "forced", 0, TRUE, ZeroSnap)
    /\ UNCHANGED <<now, retryTimer, timers, storage, serversList, serversPromise>>
    /\ Track
    /\ UNCHANGED popup

\* Whether every promise the refresh-all handler h waits for has settled.
AllSettled(h) ==
    \A i \in 1 .. Len(handlers[h].wait) : calls[handlers[h].wait[i]].pc = "idle"

\* Variant: the answer is sent when the first promise has settled.
RefreshAllAnswer_first(h) ==
    /\ handlers[h].pc = "refreshWait"
    /\ \E i \in 1 .. Len(handlers[h].wait) : calls[handlers[h].wait[i]].pc = "idle"
    /\ handlers' = [handlers EXCEPT ![h] =
                      [DoneHandler EXCEPT
                         !.resp = {handlers[h].ids[i] : i \in 1 .. Len(handlers[h].ids)}]]
    /\ emitted' = <<>>
    /\ last' = Step("refresh-all", "answered", 0, TRUE, ZeroSnap)
    /\ UNCHANGED <<now, caches, inFlight, retryTimer, timers, globalRequestTimes,
                   storage, calls, nCalls, serversList, serversPromise>>
    /\ Track
    /\ UNCHANGED popup

\* Promise.all(...).then of refresh-all: every promise has settled, the
\* answer maps each id of the list to the snapshot its promise resolved to.
RefreshAllAnswer(h) ==
    /\ handlers[h].pc = "refreshWait"
    /\ AllSettled(h)
    /\ handlers' = [handlers EXCEPT ![h] =
                      [DoneHandler EXCEPT
                         !.resp = {handlers[h].ids[i] : i \in 1 .. Len(handlers[h].ids)}]]
    /\ emitted' = <<>>
    /\ last' = Step("refresh-all", "answered", 0, TRUE, ZeroSnap)
    /\ UNCHANGED <<now, caches, inFlight, retryTimer, timers, globalRequestTimes,
                   storage, calls, nCalls, serversList, serversPromise>>
    /\ Track
    /\ UNCHANGED popup

\* The rate window when the popup is opened: one request below the ceiling,
\* or at the ceiling.
PopupTimes == {[i \in 1 .. n |-> StartMs - TickMs] :
                  n \in {RATE_MAX_REQUESTS - 1, RATE_MAX_REQUESTS}}

PopupInit ==
    /\ now = StartMs
    /\ caches = [s \in Servers |-> ZeroSnap]
    /\ inFlight = [s \in Servers |-> 0]
    /\ retryTimer = [s \in Servers |-> 0]
    /\ timers = [s \in Servers |-> <<>>]
    /\ globalRequestTimes \in PopupTimes
    /\ storage \in {st \in [Servers -> InitEntries] :
                       \A s \in Servers \ Polled : st[s] = NoEntry}
    /\ calls = [c \in Slots |-> IdleCall]
    /\ nCalls = 0
    /\ emitted = <<>>
    /\ last = NoStep
    /\ serversList = NoList
    /\ serversPromise = FALSE
    /\ handlers = [h \in HSlots |-> NewHandler]
    /\ unnotified = [s \in Servers |-> FALSE]
    /\ popup = ClosedPopup

\* Clicks on the refresh control, refresh-all, the directory request, and
\* the invocations of fetchFromAPI they start with their retries.
PopupNext ==
    \/ \E ok \in BOOLEAN : OnClick(ok)
    \/ \E h \in HSlots : ClickResumes(h)
    \/ \E ok \in BOOLEAN, body \in DirBodies : DirFetchDone(ok, body)
    \/ \E h \in HSlots : RefreshAllResolved(h)
    \/ \E h \in HSlots : RefreshAllAnswer(h)
    \/ \E s \in Servers, i \in Slots : TimerFire(s, i)
    \/ \E c \in Slots, ok \in BOOLEAN : LoadStateDone(c, ok)
    \/ \E c \in Slots, ra \in MsgHeaders : Fetch429(c, ra)
    \/ \E c \in Slots, kind \in MsgFailKinds : FetchFail(c, kind)
    \/ \E c \in Slots, data \in MsgBodies : FetchOk(c, data)
    \/ \E c \in Slots, ok \in BOOLEAN : SaveStateDone(c, ok)
    \/ MsgTick

SpecPopup == PopupInit /\ [][PopupNext]_vars

\* A request that was sent settles, a storage write ends, and a then-callback
\* whose promises have settled runs.
PopupCompletes ==
    /\ \A c \in Slots :
        /\ WF_vars(\/ \E ra \in MsgHeaders : Fetch429(c, ra)
                   \/ \E kind \in MsgFailKinds : FetchFail(c, kind)
                   \/ \E data \in MsgBodies : FetchOk(c, data))
        /\ WF_vars(\E ok \in BOOLEAN : SaveStateDone(c, ok))
    /\ \A h \in HSlots : WF_vars(RefreshAllAnswer(h))

SpecPopupFair == PopupInit /\ [][PopupNext]_vars /\ PopupCompletes

\* ------------------------------------- the directory and its three callers
\* onMessage 'event-peeper:refresh-all' up to fetchServersOnce().then(...).
OnRefreshAll ==
    /\ FreeHandler # 0
    /\ fetchServersOnce
    /\ handlers' = [handlers EXCEPT ![FreeHandler] =
                      [NewHandler EXCEPT !.pc = "dir", !.kind = "refresh-all"]]
    /\ emitted' = <<>>
    /\ last' = Step("refresh-all", "started", 0, FALSE, ZeroSnap)
    /\ UNCHANGED <<now, caches, inFlight, retryTimer, timers, globalRequestTimes,
                   storage, calls, nCalls>>
    /\ Track
    /\ UNCHANGED popup

\* The get-servers, get-all and refresh-all handlers, the directory request
\* and the invocations of fetchFromAPI the handlers start.
DirNext ==
    \/ \E kind \in {"get-servers", "get-all"} : OnDirectoryMessage(kind)
    \/ OnRefreshAll
    \/ \E ok \in BOOLEAN, body \in DirBodies : DirFetchDone(ok, body)
    \/ \E h \in HSlots : DirResolved(h)
    \/ \E h \in HSlots, ok \in BOOLEAN : AllLoaded1(h, ok)
    \/ \E h \in HSlots, ok \in BOOLEAN : AllLoaded2(h, ok)
    \/ \E h \in HSlots : RefreshAllResolved(h)
    \/ \E h \in HSlots : RefreshAllAnswer(h)
    \/ \E s \in Servers, i \in Slots : TimerFire(s, i)
    \/ \E c \in Slots, ok \in BOOLEAN : LoadStateDone(c, ok)
    \/ \E c \in Slots, ra \in MsgHeaders : Fetch429(c, ra)
    \/ \E c \in Slots, kind \in MsgFailKinds : FetchFail(c, kind)
    \/ \E c \in Slots, data \in MsgBodies : FetchOk(c, data)
    \/ \E c \in Slots, ok \in BOOLEAN : SaveStateDone(c, ok)
    \/ MsgTick

SpecDir == MsgInit /\ [][DirNext]_vars

\* ------------------------------------- the popup's countdown and auto refresh
\* The number of seconds the clock advances in the runs of the popup.
AutoMaxSecs == 4

\* The cap on unanswered requestRefreshAll() calls per server.
AutoMaxAwaiting == 1

\* Date.now() in seconds, as the popup reads it.
NowSec == now \div 1000

\* tgt - now of maybeAutoRefreshOnZero for the entry e of last.
Remaining(lc, e, t) == targetTs(lc, e.snap.data) - t

\* Whether server s shows a countdown that is above 1 second in popup state p.
Above1(p, s, t) ==
    /\ targetTs(p.lastCloseTime[s], p.last[s].snap.data) # 0
    /\ Remaining(p.lastCloseTime[s], p.last[s], t) > 1

\* renderAll(): lastCloseTime is taken from the open snapshots that carry a
\* close_time, and startTimer() restarts the interval of every server that
\* has a target.
renderAll(p) ==
    LET lct == [id \in Servers |->
                  IF p.last[id].snap.data.type = "open" /\ p.last[id].snap.data.close_time # 0
                  THEN p.last[id].snap.data.close_time
                  ELSE p.lastCloseTime[id]]
    IN [p EXCEPT !.lastCloseTime = lct,
                 !.interval = [id \in Servers |->
                                 IF targetTs(lct[id], p.last[id].snap.data) # 0
                                 THEN now + COUNTDOWN_TICK_MS ELSE 0]]

\* The history of the requests: armed is set by a countdown above 1 second
\* in the new state and cleared by a request.
Armed(p, q, t) ==
    [q EXCEPT !.armed = [s \in Servers |->
                           IF Above1(q, s, t) THEN TRUE
                           ELSE IF q.sent[s] > p.sent[s] THEN FALSE
                           ELSE p.armed[s]]]

\* The optimistic update of maybeAutoRefreshOnZero for server s: closed is
\* marked checking, announced becomes open, open becomes closed; the page is
\* rendered when last[s] was replaced.
Optimistic(p, s) ==
    LET e == p.last[s]
        data == e.snap.data
        openTime == effectiveOpenTime(p.lastCloseTime[s], data)
        closeTime == IF data.close_time # 0 THEN data.close_time
                     ELSE IF data.open_time # 0 THEN data.open_time + OPEN_WINDOW_SEC
                     ELSE 0
    IN IF data.type = "closed"
       THEN renderAll([p EXCEPT !.last[s] = [e EXCEPT !.checking = TRUE]])
       ELSE IF data.type = "announced" /\ openTime # 0
       THEN renderAll([p EXCEPT !.last[s] =
                          [e EXCEPT !.snap.data =
                              Open(data.name, openTime, openTime + OPEN_WINDOW_SEC)]])
       ELSE IF data.type = "open" /\ closeTime # 0
       THEN LET q == [p EXCEPT !.last[s] =
                         [e EXCEPT !.snap.data = Closed(closeTime + COOLDOWN_GAP_SEC)],
                               !.lastCloseTime[s] = closeTime]
            IN renderAll(q)
       ELSE p

\* maybeAutoRefreshOnZero(server) up to its await or return, on popup state p.
maybeAutoRefreshOnZero(p, s) ==
    LET lc == p.lastCloseTime[s]
        tgt == targetTs(lc, p.last[s].snap.data)
        remaining == tgt - NowSec
    IN IF tgt = 0 THEN p
       ELSE IF remaining <= 0 /\ ~p.refreshed[s]
       THEN LET q == Optimistic([p EXCEPT !.refreshed[s] = TRUE], s)
            IN [q EXCEPT !.awaiting[s] = @ + 1, !.sent[s] = @ + 1]
       ELSE IF remaining > 1 THEN [p EXCEPT !.refreshed[s] = FALSE]
       ELSE p

\* The interval callback of server s: renderFn records the close_time of an
\* open snapshot, then maybeAutoRefreshOnZero(server) runs.
CountdownTick(s) ==
    /\ popup.interval[s] # 0
    /\ popup.interval[s] <= now
    /\ LET data == popup.last[s].snap.data
           p == [popup EXCEPT
                   !.interval[s] = now + COUNTDOWN_TICK_MS,
                   !.lastCloseTime[s] = IF data.type = "open" /\ data.close_time # 0
                                        THEN data.close_time ELSE @]
           q == maybeAutoRefreshOnZero(p, s)
       IN /\ q.sent[s] > popup.sent[s] => popup.awaiting[s] < AutoMaxAwaiting
          /\ popup' = Armed(popup, q, NowSec)
    /\ UNCHANGED <<now, caches, inFlight, retryTimer, timers, globalRequestTimes, storage,
                   calls, nCalls, emitted, last, serversList, serversPromise, handlers,
                   unnotified>>

\* The records the popup shows when it is opened: the target of each is one
\* second ahead.
AutoRecs ==
    {NullRec,
     Closed(StartSec + 1 + ANNOUNCE_WINDOW_SEC),
     Announced("F", StartSec + 1),
     Open("F", 0, StartSec + 1)}

\* The body the events API answers a forced fetch with.
AutoBodies == {Announced("E", StartSec + 1 + ANNOUNCE_WINDOW_SEC)}

\* How the forced fetch of one server ends: with a body, or with a failure
\* or a 429.
AutoOutcomes ==
    {[ok |-> FALSE, body |-> NullRec]} \cup {[ok |-> TRUE, body |-> b] : b \in AutoBodies}

\* The snapshot the forced fetch of server s resolves to: the settled
\* previous one after a failure or a 429, else the new body.
Refreshed(s, o) ==
    IF o.ok THEN Snap(o.body, FALSE, now) ELSE Settled(caches[s])

\* The worker answers the refresh-all that maybeAutoRefreshOnZero(s) awaits
\* and the function resumes: last takes the snapshot of every server of the
\* answer (ids is empty for an answer without servers), the page is rendered,
\* and the timeout that clears the flag of s is set. out is the outcome of
\* the forced fetch of each server.
RefreshAnswered(s, ids, out) ==
    /\ popup.awaiting[s] > 0
    /\ caches' = [id \in Servers |->
                    IF id \in ids THEN Refreshed(id, out[id]) ELSE caches[id]]
    /\ LET p == [popup EXCEPT
                   !.last = [id \in Servers |->
                               IF id \in ids THEN Shown(caches'[id], FALSE) ELSE @[id]],
                   !.awaiting[s] = @ - 1,
                   !.rearm[s] = Append(@, now + REARM_DELAY_MS)]
       IN popup' = Armed(popup, renderAll(p), NowSec)
    /\ UNCHANGED <<now, inFlight, retryTimer, timers, globalRequestTimes, storage,
                   calls, nCalls, emitted, last, serversList, serversPromise, handlers,
                   unnotified>>

\* The timeout set after a refresh fires: the flag of s is cleared.
RearmFires(s) ==
    /\ popup.rearm[s] # <<>>
    /\ Head(popup.rearm[s]) <= now
    /\ popup' = Armed(popup, [popup EXCEPT !.rearm[s] = Tail(@), !.refreshed[s] = FALSE],
                     NowSec)
    /\ UNCHANGED <<now, caches, inFlight, retryTimer, timers, globalRequestTimes, storage,
                   calls, nCalls, emitted, last, serversList, serversPromise, handlers,
                   unnotified>>

\* An 'event-peeper:update' message for server s sent while its forced
\* fetch is in flight: last[s] takes the payload and the page is rendered.
OnUpdate(s) ==
    /\ \E x \in Servers : popup.awaiting[x] > 0
    /\ LET p == [popup EXCEPT
                   !.last[s] = Shown([caches[s] EXCEPT !.loading = TRUE, !.error = "null"],
                                     FALSE)]
       IN popup' = Armed(popup, renderAll(p), NowSec)
    /\ UNCHANGED <<now, caches, inFlight, retryTimer, timers, globalRequestTimes, storage,
                   calls, nCalls, emitted, last, serversList, serversPromise, handlers,
                   unnotified>>

\* A second passes.
AutoSecond ==
    /\ now < StartMs + AutoMaxSecs * COUNTDOWN_TICK_MS
    /\ now' = now + COUNTDOWN_TICK_MS
    /\ popup' = Armed(popup, popup, now' \div 1000)
    /\ UNCHANGED <<caches, inFlight, retryTimer, timers, globalRequestTimes, storage,
                   calls, nCalls, emitted, last, serversList, serversPromise, handlers,
                   unnotified>>

\* The popup has been opened and initialize() has run: last holds the
\* snapshots of the worker and renderAll() has started the intervals.
AutoInit ==
    /\ now = StartMs
    /\ caches \in {c \in [Servers -> {Snap(d, FALSE, StartMs - TickMs) : d \in AutoRecs}] :
                      \A s \in Servers \ Polled : c[s].data.type \in {"null", "closed"}}
    /\ inFlight = [s \in Servers |-> 0]
    /\ retryTimer = [s \in Servers |-> 0]
    /\ timers = [s \in Servers |-> <<>>]
    /\ globalRequestTimes = <<>>
    /\ storage = [s \in Servers |-> NoEntry]
    /\ calls = [c \in Slots |-> IdleCall]
    /\ nCalls = 0
    /\ emitted = <<>>
    /\ last = NoStep
    /\ serversList = NoList
    /\ serversPromise = FALSE
    /\ handlers = [h \in HSlots |-> NewHandler]
    /\ unnotified = [s \in Servers |-> FALSE]
    /\ popup = renderAll([ClosedPopup EXCEPT
                            !.last = [s \in Servers |-> Shown(caches[s], FALSE)]])

AutoNext ==
    \/ \E s \in Servers : CountdownTick(s)
    \/ \E s \in Servers, ids \in {{}, Servers}, out \in [Servers -> AutoOutcomes] :
          RefreshAnswered(s, ids, out)
    \/ \E s \in Servers : RearmFires(s)
    \/ \E s \in Servers : OnUpdate(s)
    \/ AutoSecond

\* The interval callbacks and the timeouts run when they are due, a request
\* is answered, and the clock goes on.
AutoFair ==
    /\ \A s \in Servers :
        /\ WF_vars(CountdownTick(s))
        /\ WF_vars(RearmFires(s))
        /\ WF_vars(\E ids \in {{}, Servers}, out \in [Servers -> AutoOutcomes] :
                      RefreshAnswered(s, ids, out))
    /\ WF_vars(AutoSecond)

SpecAuto == AutoInit /\ [][AutoNext]_vars /\ AutoFair

\* ------------------------------------------- refreshes for several servers
\* Windows one and two requests below the ceiling when the worker starts.
CeilTimes == {[i \in 1 .. n |-> StartMs - TickMs] :
                 n \in {RATE_MAX_REQUESTS - 2, RATE_MAX_REQUESTS - 1}}

CeilInit ==
    /\ now = StartMs
    /\ caches = [s \in Servers |-> ZeroSnap]
    /\ inFlight = [s \in Servers |-> 0]
    /\ retryTimer = [s \in Servers |-> 0]
    /\ timers = [s \in Servers |-> <<>>]
    /\ globalRequestTimes \in CeilTimes
    /\ storage \in {st \in [Servers -> InitEntries] :
                       \A s \in Servers \ Polled : st[s] = NoEntry}
    /\ calls = [c \in Slots |-> IdleCall]
    /\ nCalls = 0
    /\ emitted = <<>>
    /\ last = NoStep
    /\ serversList = NoList
    /\ serversPromise = FALSE
    /\ handlers = [h \in HSlots |-> NewHandler]
    /\ unnotified = [s \in Servers |-> FALSE]
    /\ popup = ClosedPopup

\* Forced and non-forced refreshes for every server, the periodic alarm,
\* network calls that fail, and the retry timers.
CeilNext ==
    \/ \E s \in Servers, forced \in BOOLEAN : OnRefresh(s, forced)
    \/ OnAlarm
    \/ \E s \in Servers, i \in Slots : TimerFire(s, i)
    \/ \E c \in Slots, ok \in BOOLEAN : LoadStateDone(c, ok)
    \/ \E c \in Slots, kind \in MsgFailKinds : FetchFail(c, kind)
    \/ MsgTick

SpecCeiling == CeilInit /\ [][CeilNext]_vars

\* ------------------------------------------------------- get-all on its own
\* What storage.local may hold for a server when get-all arrives: nothing, an
\* announced event, or a closed record whose announcement time is one clock
\* advance ahead.
AllEntries ==
    InitEntries
    \cup {Entry(Snap(Closed(StartSec + TickMs \div 1000 + ANNOUNCE_WINDOW_SEC), FALSE,
                     StartMs - TickMs),
                StartMs - TickMs)}

AllInit ==
    /\ now = StartMs
    /\ caches = [s \in Servers |-> ZeroSnap]
    /\ inFlight = [s \in Servers |-> 0]
    /\ retryTimer = [s \in Servers |-> 0]
    /\ timers = [s \in Servers |-> <<>>]
    /\ globalRequestTimes \in InitTimes \ {<<>>}
    /\ storage \in [Servers -> AllEntries]
    /\ calls = [c \in Slots |-> IdleCall]
    /\ nCalls = 0
    /\ emitted = <<>>
    /\ last = NoStep
    /\ serversList = NoList
    /\ serversPromise = FALSE
    /\ handlers = [h \in HSlots |-> NewHandler]
    /\ unnotified = [s \in Servers |-> FALSE]
    /\ popup = ClosedPopup

\* get-all and get-servers messages, the directory request, the two loops of
\* get-all, and the invocations of fetchFromAPI they start.
AllNext ==
    \/ \E kind \in {"get-servers", "get-all"} : OnDirectoryMessage(kind)
    \/ \E ok \in BOOLEAN, body \in DirBodies : DirFetchDone(ok, body)
    \/ \E h \in HSlots : DirResolved(h)
    \/ \E h \in HSlots, ok \in BOOLEAN : AllLoaded1(h, ok)
    \/ \E h \in HSlots, ok \in BOOLEAN : AllLoaded2(h, ok)
    \/ \E s \in Servers, i \in Slots : TimerFire(s, i)
    \/ \E c \in Slots, ok \in BOOLEAN : LoadStateDone(c, ok)
    \/ \E c \in Slots, kind \in MsgFailKinds : FetchFail(c, kind)
    \/ MsgTick

SpecAll == AllInit /\ [][AllNext]_vars

\* ------------------------------------------- the Retry-After header parsed
\* The half seconds after StartMs at which a 429 response may arrive.
RetryNowSteps == 7

\* The seconds around StartSec an HTTP date of the header may name.
RetryDateSpan == 13

\* The largest number of seconds of a numeric header.
RetryMaxSecs == 11

RetryNows == {StartMs + 500 * j : j \in 0 .. RetryNowSteps}

\* The values headers.get('Retry-After') may return.
RetryHeaders ==
    {NoHeader, Header("empty", 0, 0), Header("other", 0, 0)}
    \cup {Header("number", n, 0) : n \in -1 .. RetryMaxSecs}
    \cup {Header("date", 0, 1000 * (StartSec - 2 + k)) : k \in 0 .. RetryDateSpan}

RetryInit ==
    /\ now \in RetryNows
    /\ caches = [s \in Servers |-> ZeroSnap]
    /\ inFlight = [s \in Servers |-> 0]
    /\ retryTimer = [s \in Servers |-> 0]
    /\ timers = [s \in Servers |-> <<>>]
    /\ globalRequestTimes = <<>>
    /\ storage = [s \in Servers |-> NoEntry]
    /\ calls = [c \in Slots |-> IdleCall]
    /\ nCalls = 0
    /\ emitted = <<>>
    /\ last = NoStep
    /\ serversList = NoList
    /\ serversPromise = FALSE
    /\ handlers = [h \in HSlots |-> NewHandler]
    /\ unnotified = [s \in Servers |-> FALSE]
    /\ popup = ClosedPopup

\* Lines 514-525 for a 429 response with the header ra: the header is kept
\* in last.ra and the delay computed in last.delay.
ApplyRetryDelay(ra) ==
    /\ last' = [Step("retryDelay", "", 0, FALSE, ZeroSnap)
                  EXCEPT !.ra = ra, !.delay = retryDelayMs(ra, now)]
    /\ UNCHANGED <<now, caches, inFlight, retryTimer, timers, globalRequestTimes,
                   storage, calls, nCalls, emitted>>
    /\ UNCHANGED dirvars
    /\ Track
    /\ UNCHANGED popup

RetryNext == \E ra \in RetryHeaders : ApplyRetryDelay(ra)

SpecRetryAfter == RetryInit /\ [][RetryNext]_vars

\* ------------------------------------------ periodic requests without end
\* Period of the 'event-peeper:tick' alarm, in ms.
ALARM_PERIOD_MS == 60000

\* The number of alarm periods after which the clock of these runs is no
\* longer told apart: every instant of the persisted records, and every
\* instant the predictor derives from them, lies before the last of them.
ForeverTicks == 45

\* The event records the store holds: closed without and with
\* predicted_open_time, announced, open with and without close_time.
ForeverRecs ==
    {Closed(0),
     Closed(StartSec + ALARM_PERIOD_MS \div 1000 + ANNOUNCE_WINDOW_SEC),
     Announced("E", StartSec + ALARM_PERIOD_MS \div 1000),
     Open("E", StartSec, StartSec + OPEN_WINDOW_SEC),
     Open("E", StartSec, 0)}

ForeverInit ==
    /\ now = StartMs
    /\ caches = [s \in Servers |-> ZeroSnap]
    /\ inFlight = [s \in Servers |-> 0]
    /\ retryTimer = [s \in Servers |-> 0]
    /\ timers = [s \in Servers |-> <<>>]
    /\ globalRequestTimes = <<>>
    /\ storage \in {[s \in Servers |->
                        IF s \in Polled THEN Entry(Snap(d, FALSE, StartMs - TickMs),
                                                   StartMs - TickMs)
                        ELSE NoEntry] : d \in ForeverRecs}
    /\ calls = [c \in Slots |-> IdleCall]
    /\ nCalls = 0
    /\ emitted = <<>>
    /\ last = NoStep
    /\ serversList = NoList
    /\ serversPromise = FALSE
    /\ handlers = [h \in HSlots |-> NewHandler]
    /\ unnotified = [s \in Servers |-> FALSE]
    /\ popup = ClosedPopup

\* An alarm period passes while no invocation is in progress.
ForeverTick ==
    /\ \A c \in Slots : calls[c].pc = "idle"
    /\ last.op # "tick"
    /\ now' = IF now + ALARM_PERIOD_MS <= StartMs + ForeverTicks * ALARM_PERIOD_MS
               THEN now + ALARM_PERIOD_MS ELSE now
    /\ emitted' = <<>>
    /\ last' = Step("tick", "", 0, FALSE, ZeroSnap)
    /\ UNCHANGED <<caches, inFlight, retryTimer, timers, globalRequestTimes, storage,
                   calls, nCalls>>
    /\ UNCHANGED dirvars
    /\ Track
    /\ UNCHANGED popup

\* The alarm fires: fetchFromAPI({forced: false, server: s}) in slot c,
\* which is taken again once its invocation has returned.
ForeverRefresh(c, s) ==
    /\ last.op = "tick"
    /\ calls[c].pc = "idle"
    /\ Refresh(c, s, FALSE)
    /\ UNCHANGED nCalls

\* The runs up to the first network call: the alarm fires once per period
\* and the storage read of the invocation succeeds.
ForeverNext ==
    \/ ForeverTick
    \/ \E s \in Polled : ForeverRefresh(1, s)
    \/ LoadStateDone(1, TRUE)

\* The clock goes on, the alarm fires, and the storage read completes.
ForeverFair ==
    /\ WF_vars(ForeverTick)
    /\ WF_vars(\E s \in Polled : ForeverRefresh(1, s))
    /\ WF_vars(LoadStateDone(1, TRUE))

SpecForever == ForeverInit /\ [][ForeverNext]_vars /\ ForeverFair

\* ------------------------------------------------- recovery after a denial
\* Runs with no forced request: the alarm and the get messages start
\* non-forced invocations for the polled server, the events API fails, and
\* the clock is read relative to the present as in the stream of requests.
\* The invocations of the messages and the alarm run in slot 1, those the
\* retry timer starts in slot 2.

\* The rate window at the start: empty, or filled by ten requests just made.
RecoverInit ==
    /\ Init
    /\ globalRequestTimes \in {<<>>, [i \in 1 .. RATE_MAX_REQUESTS |-> StartMs]}
    /\ storage = [s \in Servers |-> NoEntry]

RecoverRequest(s) ==
    /\ calls[1].pc = "idle"
    /\ Refresh(1, s, FALSE)
    /\ UNCHANGED nCalls

RecoverTimerFire(s) == \E i \in Slots : StreamTimerFire(2, s, i)

RecoverNext ==
    \/ \E s \in Polled : RecoverRequest(s)
    \/ \E s \in Polled : RecoverTimerFire(s)
    \/ \E c \in StreamSlots, ok \in BOOLEAN : LoadStateDone(c, ok)
    \/ \E c \in StreamSlots, kind \in FailKinds : FetchFail(c, kind)
    \/ StreamTick

\* Time passes, the alarm keeps firing, every due timer fires, and every
\* awaited storage read and every network call completes.
RecoverFair ==
    /\ WF_vars(StreamTick)
    /\ \A s \in Polled : WF_vars(RecoverRequest(s))
    /\ \A s \in Polled : WF_vars(RecoverTimerFire(s))
    /\ \A c \in StreamSlots :
         /\ WF_vars(\E ok \in BOOLEAN : LoadStateDone(c, ok))
         /\ WF_vars(\E kind \in FailKinds : FetchFail(c, kind))

SpecRecover == RecoverInit /\ [][RecoverNext]_vars /\ RecoverFair

\* ------------------------------------------------- the predictor on its own
\* The seconds after StartSec - 1 the clock may show when the predictor runs.
PredSpan == 2710

\* Open times of the persisted events.
PredOpenTimes == {StartSec + 1, StartSec + 2}

\* A close_time the API may send that is not open_time + OPEN_WINDOW_SEC.
PredShortWindow == 600

\* The event records storage.local may hold: announced, open with and without
\* close_time, closed with and without predicted_open_time.
PredRecs ==
    {Announced(n, T) : n \in {"E", "F"}, T \in PredOpenTimes}
    \cup {Open("E", T, C) : T \in PredOpenTimes,
                            C \in {0, StartSec + 1 + OPEN_WINDOW_SEC,
                                   StartSec + 1 + PredShortWindow}}
    \cup {Closed(P) : P \in {0, StartSec + 1 + ANNOUNCE_WINDOW_SEC,
                             StartSec + 1 + OPEN_WINDOW_SEC + COOLDOWN_GAP_SEC
                                + ANNOUNCE_WINDOW_SEC}}

\* The persisted values: no key, a value without an event record, a record.
PredEntries ==
    {NoEntry, Entry(ZeroSnap, StartMs)}
    \cup {Entry(Snap(d, FALSE, StartMs), StartMs) : d \in PredRecs}

\* Date.now() when the predictor runs, at the start and at the end of a second.
PredNows == {1000 * k + ms : k \in StartSec - 1 .. StartSec - 1 + PredSpan, ms \in {0, 999}}

PredInit ==
    /\ now \in PredNows
    /\ caches = [s \in Servers |-> ZeroSnap]
    /\ inFlight = [s \in Servers |-> 0]
    /\ retryTimer = [s \in Servers |-> 0]
    /\ timers = [s \in Servers |-> <<>>]
    /\ globalRequestTimes = <<>>
    /\ storage \in {st \in [Servers -> PredEntries] :
                       \A s \in Servers \ Polled : st[s] = NoEntry}
    /\ calls = [c \in Slots |-> IdleCall]
    /\ nCalls = 0
    /\ emitted = <<>>
    /\ last = NoStep
    /\ serversList = NoList
    /\ serversPromise = FALSE
    /\ handlers = [h \in HSlots |-> NewHandler]
    /\ unnotified = [s \in Servers |-> FALSE]
    /\ popup = ClosedPopup

\* predictState(saved) for the value loadState(0) resolves to; the result is
\* kept in last.ret.data.
ApplyPredictState ==
    /\ last' = Step("predictState", "", 0, FALSE, Snap(Predicted(storage[0], now), FALSE, 0))
    /\ UNCHANGED <<now, caches, inFlight, retryTimer, timers, globalRequestTimes,
                   storage, calls, nCalls, emitted>>
    /\ UNCHANGED dirvars
    /\ Track
    /\ UNCHANGED popup

\* needsApiQuery(d, now) for the persisted record d; the argument is kept in
\* last.ret.data and the truth value of the result in last.path.
ApplyNeedsApiQuery ==
    /\ LET d == storage[0].data.data IN
       last' = Step("needsApiQuery",
                    IF needsApiQuery(d, now \div 1000) THEN "true" ELSE "false",
                    0, FALSE, Snap(d, FALSE, 0))
    /\ UNCHANGED <<now, caches, inFlight, retryTimer, timers, globalRequestTimes,
                   storage, calls, nCalls, emitted>>
    /\ UNCHANGED dirvars
    /\ Track
    /\ UNCHANGED popup

PredNext == ApplyPredictState \/ ApplyNeedsApiQuery

SpecPredict == PredInit /\ [][PredNext]_vars

\* ------------------------------------------- the horizon of the prediction
\* A non-forced request arrives at any instant of the span, with the rate
\* window empty or filled in that instant.  The persisted records carry
\* times: announced with open time T, and open with open time T and close
\* time T + OPEN_WINDOW_SEC.
HorizonInit ==
    /\ now \in PredNows
    /\ caches = [s \in Servers |-> ZeroSnap]
    /\ inFlight = [s \in Servers |-> 0]
    /\ retryTimer = [s \in Servers |-> 0]
    /\ timers = [s \in Servers |-> <<>>]
    /\ globalRequestTimes \in {<<>>, [i \in 1 .. RATE_MAX_REQUESTS |-> now]}
    /\ storage \in {[s \in Servers |->
                        IF s \in Polled THEN Entry(Snap(d, FALSE, StartMs), StartMs)
                        ELSE NoEntry] :
                     d \in {Announced(n, T) : n \in {"E", "F"}, T \in PredOpenTimes}
                           \cup {Open("E", T, T + OPEN_WINDOW_SEC) : T \in PredOpenTimes}}
    /\ calls = [c \in Slots |-> IdleCall]
    /\ nCalls = 0
    /\ emitted = <<>>
    /\ last = NoStep
    /\ serversList = NoList
    /\ serversPromise = FALSE
    /\ handlers = [h \in HSlots |-> NewHandler]
    /\ unnotified = [s \in Servers |-> FALSE]
    /\ popup = ClosedPopup

\* Lines 469-472 for the value loadState(0) resolves to: predictedData is
\* kept in last.ret.data and the truth value of needsApiQuery(predictedData,
\* now) in last.path.
ApplyPrediction ==
    /\ last.op = "init"
    /\ LET predictedData == Predicted(storage[0], now) IN
       last' = Step("prediction",
                    IF needsApiQuery(predictedData, now \div 1000) THEN "true" ELSE "false",
                    0, FALSE, Snap(predictedData, FALSE, 0))
    /\ UNCHANGED <<now, caches, inFlight, retryTimer, timers, globalRequestTimes,
                   storage, calls, nCalls, emitted>>
    /\ UNCHANGED dirvars
    /\ Track
    /\ UNCHANGED popup

\* One non-forced request for server 0.
HorizonRefresh ==
    /\ nCalls = 0
    /\ last.op = "init"
    /\ OnRefresh(0, FALSE)

HorizonNext ==
    \/ ApplyPrediction
    \/ HorizonRefresh
    \/ LoadStateDone(1, TRUE)

SpecHorizon == HorizonInit /\ [][HorizonNext]_vars

\* ------------------------------------------------------------- properties
\* Whether the snapshot of server s is used by a live network call.
IsLive(cs, c) == cs[c].pc \in {"fetch", "saveState"}

\* The number of timestamps of the window younger than RATE_WINDOW_MS at t.
Fresh(times, t) == Len(SelectSeq(times, LAMBDA x : t - x < RATE_WINDOW_MS))

\* The condition of lines 468-472 on the persisted entry e at instant t.
PredictionValid(e, t) ==
    /\ e.present
    /\ e.data.data.type # "null"
    /\ predictState(e.data.data, t \div 1000).type # "null"
    /\ ~needsApiQuery(predictState(e.data.data, t \div 1000), t \div 1000)

\* C1: of two non-forced invocations of fetchFromAPI for the same server that
\* overlap, at most one issues a network call: no step issues a call on
\* behalf of a non-forced invocation while or after an overlapping non-forced
\* invocation for that server issued one.
C1_Coalescing == ~last.dup

\* C2: a non-forced invocation that resumes from loadState with a persisted
\* event record whose prediction is a record that needs no query stores and
\* returns {data: prediction, error: null, loading: false, lastUpdated:
\* savedAt}, sends exactly one update, issues no network call and leaves the
\* rate window alone; and no other resumption returns a prediction.
C2_PredictionPath ==
    [][last'.op = "loadState" =>
         LET s == last'.server IN
         IF last'.ok /\ PredictionValid(storage[s], now)
         THEN /\ last'.path = "predicted"
              /\ last'.ret = [data |-> predictState(storage[s].data.data, now \div 1000),
                              error |-> "null", loading |-> FALSE,
                              lastUpdated |-> storage[s].savedAt]
              /\ caches'[s] = last'.ret
              /\ emitted' = <<[server |-> s, payload |-> last'.ret]>>
              /\ globalRequestTimes' = globalRequestTimes
              /\ inFlight' = inFlight
              /\ \A c \in Slots : IsLive(calls', c) <=> IsLive(calls, c)
         ELSE last'.path # "predicted"]_vars

\* C2 witness: a prediction that differs from the persisted record was returned.
C2_Witness ==
    /\ last.op = "loadState"
    /\ last.path = "predicted"
    /\ last.ret.data.type = "open"
    /\ storage[last.server].data.data.type = "announced"

\* C3: a non-forced invocation that reaches the rate-limit check while the
\* window holds 10 timestamps younger than 10 s issues no network call,
\* records no timestamp, leaves the cache unchanged, returns a snapshot with
\* loading = false, and leaves exactly one retry timer pending for the server.
C3_LocalDenial ==
    [][(/\ last'.op = "loadState"
        /\ ~(last'.ok /\ PredictionValid(storage[last'.server], now))
        /\ Fresh(globalRequestTimes, now) >= RATE_MAX_REQUESTS)
       => LET s == last'.server IN
          /\ last'.path = "denied"
          /\ \A c \in Slots : IsLive(calls', c) <=> IsLive(calls, c)
          /\ pruneOld(globalRequestTimes', now) = pruneOld(globalRequestTimes, now)
          /\ caches' = caches
          /\ ~last'.ret.loading
          /\ Len(timers'[s]) = 1]_vars

\* C4: after a network call for s ended with HTTP 429 and a numeric
\* Retry-After of r seconds, exactly one retry timer is pending for s and it
\* is due no earlier than max(1000, r * 1000) ms after the response.
C4_RetryHintHonoured ==
    (last.op = "fetch" /\ last.path = "429" /\ last.ra.kind = "number")
    => LET s == last.server IN
       /\ Len(timers[s]) = 1
       /\ timers[s][1] >= now + Max(1000, last.ra.secs * 1000)

\* C5: the rate window pruned of timestamps older than 10 000 ms never holds
\* more than RATE_MAX_REQUESTS timestamps: getRateLimitStatus never reports
\* used > max or available < 0.
C5_RateWindowBound ==
    LET status == getRateLimitStatus(globalRequestTimes, now) IN
    /\ Len(pruneOld(globalRequestTimes, now)) <= RATE_MAX_REQUESTS
    /\ status.used <= status.max
    /\ status.available >= 0

\* C6: once at least 10 requests were recorded within one window,
\* canMakeAutoRequest is false at every later instant at which the oldest
\* retained timestamp is not yet more than 10 000 ms old, and it is true
\* whenever fewer than 10 timestamps remain after pruning.
C6_DeniedUntilOldestAgesOut ==
    /\ (Len(globalRequestTimes) >= RATE_MAX_REQUESTS
        /\ now - Head(globalRequestTimes) <= RATE_WINDOW_MS)
       => ~canMakeAutoRequest(globalRequestTimes, now)
    /\ Len(SelectSeq(globalRequestTimes, LAMBDA x : x >= now - RATE_WINDOW_MS))
          < RATE_MAX_REQUESTS
       => canMakeAutoRequest(globalRequestTimes, now)

\* C6 witness: ten recorded requests, the oldest exactly 10 000 ms old, at an
\* instant later than the last of them, and the request is denied.
C6_Witness ==
    /\ Len(globalRequestTimes) >= RATE_MAX_REQUESTS
    /\ now - Head(globalRequestTimes) = RATE_WINDOW_MS
    /\ now > globalRequestTimes[Len(globalRequestTimes)]
    /\ ~canMakeAutoRequest(globalRequestTimes, now)

\* C7: between two consecutive recordRequest calls the values returned by
\* timeUntilNextSlotMs never increase as the clock advances.
C7_SlotTimeNonIncreasing ==
    [][last'.op # "record" =>
         timeUntilNextSlotMs(globalRequestTimes', now')
            <= timeUntilNextSlotMs(globalRequestTimes, now)]_vars

\* C8: each server has at most one pending retry timer, which retryTimer
\* refers to; scheduling from a local denial or from a 429 while a timer is
\* pending leaves the timer and its due time unchanged; and the callback of
\* a timer has cleared the handle when the non-forced fetchFromAPI it starts
\* begins.
C8_RetryTimerSingleSlot ==
    [][/\ \A s \in Servers :
            /\ Len(timers'[s]) <= 1
            /\ retryTimer'[s] # 0 <=> Len(timers'[s]) = 1
            /\ Len(timers'[s]) = 1 => timers'[s][1] = retryTimer'[s]
       /\ (/\ last'.path \in {"denied", "429"}
           /\ retryTimer[last'.server] # 0)
          => /\ timers'[last'.server] = timers[last'.server]
             /\ retryTimer'[last'.server] = retryTimer[last'.server]
       /\ last'.op = "timer"
          => /\ retryTimer'[last'.server] = 0
             /\ timers'[last'.server] = <<>>
             /\ ~last'.forced
             /\ last'.path \in {"coalesced", "suspended"}]_vars

\* C8 witness: a retry timer fired and the fetch it started is suspended in
\* loadState with the handle cleared.
C8_Witness ==
    /\ last.op = "timer"
    /\ last.path = "suspended"
    /\ retryTimer[last.server] = 0

\* C10: the step in which a network call stops being live has sent an update
\* for its server as its last message and has set the in-flight marker of
\* that server to null, whatever the outcome.
C10_GuaranteedCleanup ==
    [][\A c \in Slots :
         (IsLive(calls, c) /\ ~IsLive(calls', c))
         => LET s == calls[c].server IN
            /\ inFlight'[s] = 0
            /\ Len(emitted') >= 1
            /\ emitted'[Len(emitted')] = [server |-> s, payload |-> caches'[s]]]_vars

\* C10 witness: a network call ended in a JSON parse failure while another
\* call for the same server was live.
C10_Witness ==
    /\ last.op = "fetch"
    /\ last.path = "parseError"
    /\ LiveCalls(last.server) # {}
    /\ inFlight[last.server] = 0

\* C9: whenever the snapshot of a server has loading = true, a state follows
\* in which it has loading = false and no network call for the server is live,
\* provided every network call and every storage operation completes.
C9_LoadingTransient ==
    \A s \in Servers :
        caches[s].loading ~> (~caches[s].loading /\ LiveCalls(s) = {})

\* C11: when a network call ends in the catch block (a non-2xx status other
\* than 429, a network error or a JSON parse failure), the invocation
\* resolves to a snapshot with loading = false whose data is the data the
\* cache of the server held when the invocation started, the persisted state
\* is not written and no retry timer is created.
C11_TransportFailure ==
    [][\A c \in Slots :
         (/\ calls[c].pc = "fetch"
          /\ calls'[c].pc # "fetch"
          /\ last'.op = "fetch"
          /\ last'.path \in FailKinds)
         => /\ calls'[c].pc = "idle"
            /\ ~last'.ret.loading
            /\ last'.ret.data = calls[c].cache.data
            /\ last'.ret.lastUpdated = calls[c].cache.lastUpdated
            /\ caches'[calls[c].server] = last'.ret
            /\ storage' = storage
            /\ timers' = timers
            /\ retryTimer' = retryTimer]_vars

\* C11 witness: a network call failed for a server whose cache held an event
\* record when the request started.
C11_Witness ==
    /\ last.op = "fetch"
    /\ last.path \in FailKinds
    /\ last.ret.data.type # "null"
    /\ ~last.ret.loading

\* C12: when a network call, started by a forced or a non-forced request,
\* ends with HTTP 429, the cached snapshot of the server has the data the
\* cache held when the request started and loading = false, the persisted
\* state is not written, a retry timer is pending, and the invocation a retry
\* timer starts is a non-forced one (it suspends in loadState or is coalesced,
\* it never issues a network call in that step).
C12_Http429NotFatal ==
    [][/\ \A c \in Slots :
            (/\ calls[c].pc = "fetch"
             /\ calls'[c].pc # "fetch"
             /\ last'.op = "fetch"
             /\ last'.path = "429")
            => LET s == calls[c].server IN
               /\ calls'[c].pc = "idle"
               /\ caches'[s].data = calls[c].cache.data
               /\ ~caches'[s].loading
               /\ last'.ret = caches'[s]
               /\ storage' = storage
               /\ Len(timers'[s]) = 1
       /\ last'.op = "timer"
          => /\ ~last'.forced
             /\ globalRequestTimes' = globalRequestTimes
             /\ \A c \in Slots :
                  calls'[c] # calls[c]
                  => /\ calls[c].pc = "idle"
                     /\ calls'[c].pc = "loadState"
                     /\ ~calls'[c].forced]_vars

\* C12 witness: a forced request for a server whose cache held an event
\* record ended with HTTP 429 and left a retry timer pending.
C12_Witness ==
    /\ last.op = "fetch"
    /\ last.path = "429"
    /\ last.forced
    /\ last.ret.data.type # "null"
    /\ Len(timers[last.server]) = 1

\* C13: when a network call for s ends with a 2xx response and a parseable
\* body D, the cached snapshot of s becomes {data: D, error: null, loading:
\* false, lastUpdated: now}; and when the write of the persisted state has
\* succeeded, the entry of s carries D with savedAt = the instant of the
\* response, and the invocation resolves to a snapshot whose data is D.
C13_Success ==
    [][\A c \in Slots :
         /\ (calls[c].pc = "fetch" /\ calls'[c].pc = "saveState")
            => LET s == calls[c].server
                   D == calls'[c].toSave.data.data
               IN
               /\ D \in ApiBodies
               /\ caches'[s] = [data |-> D, error |-> "null", loading |-> FALSE,
                                lastUpdated |-> now]
               /\ calls'[c].toSave.savedAt = now
         /\ (calls[c].pc = "saveState" /\ calls'[c].pc # "saveState" /\ last'.ok)
            => LET s == calls[c].server
                   D == calls[c].toSave.data.data
               IN
               /\ storage'[s].present
               /\ storage'[s].data.data = D
               /\ storage'[s].savedAt = calls[c].toSave.savedAt
               /\ last'.ret.data = D]_vars

\* C14: the persisted state changes only in the step in which the saveState
\* of a successful (2xx, parseable) network fetch completes, and then only
\* the entry of that server; every other step (prediction path, local
\* denial, 429, failure, retry timers, get, get-all, get-rate-limit,
\* get-servers, the directory request) leaves every entry unchanged.
C14_PersistedWrittenOnlyBySuccess ==
    [][storage' # storage
       => \E c \in Slots :
            /\ calls[c].pc = "saveState"
            /\ calls'[c].pc = "idle"
            /\ last'.op = "saveState"
            /\ calls[c].toSave.present
            /\ calls[c].toSave.data.data \in ApiBodies
            /\ storage' = [storage EXCEPT ![calls[c].server] = calls[c].toSave]]_vars

\* C14 witness: get-all answered for a server from the prediction of its
\* persisted entry.
C14_Witness ==
    /\ last.op = "get-all"
    /\ last.path = "predicted"
    /\ storage[last.server].present
    /\ caches[last.server] = last.ret

\* C15: a non-forced invocation that resumes from loadState with no
\* persisted entry, with an entry without an event record, or with a failed
\* read never returns a predicted snapshot: it issues a network call when
\* canMakeAutoRequest allows and takes the local denial path otherwise.
C15_NoPredictionWithoutState ==
    [][\A c \in Slots :
         (/\ calls[c].pc = "loadState"
          /\ calls'[c].pc # "loadState"
          /\ ~(last'.ok /\ HasRecord(storage[calls[c].server])))
         => LET s == calls[c].server IN
            /\ last'.op = "loadState"
            /\ last'.path \in {"issued", "denied"}
            /\ last'.path = "issued" <=> canMakeAutoRequest(globalRequestTimes, now)
            /\ last'.path = "issued"
               => /\ calls'[c].pc = "fetch"
                  /\ caches'[s].loading
                  /\ Len(globalRequestTimes') = Len(pruneOld(globalRequestTimes, now)) + 1
            /\ last'.path = "denied"
               => /\ calls'[c].pc = "idle"
                  /\ caches' = caches
                  /\ last'.ret = calls[c].cache
                  /\ Len(timers'[s]) = 1]_vars

\* C15 witness: a request for a server without a persisted entry was denied
\* by the rate limiter.
C15_Witness ==
    /\ last.op = "loadState"
    /\ last.path = "denied"
    /\ last.ok
    /\ ~storage[last.server].present

\* C16: a forced refresh that is not coalesced issues a network call whatever
\* the rate window holds and whatever a prediction would give, and records
\* exactly one timestamp, the current instant, at the end of the pruned window.
C16_ForcedAlwaysIssues ==
    [][(/\ last'.op = "refresh"
        /\ last'.forced
        /\ ~Coalesces(last'.server))
       => LET s == last'.server IN
          /\ last'.path = "issued"
          /\ globalRequestTimes' = Append(pruneOld(globalRequestTimes, now), now)
          /\ storage' = storage
          /\ caches'[s] = [caches[s] EXCEPT !.loading = TRUE, !.error = "null"]
          /\ \E c \in Slots :
                /\ calls[c].pc = "idle"
                /\ calls'[c].pc = "fetch"
                /\ calls'[c].forced
                /\ calls'[c].server = s
                /\ inFlight'[s] = c
                /\ \A d \in Slots \ {c} : calls'[d] = calls[d]]_vars

\* C16 witness: a forced refresh issued although the window already held
\* RATE_MAX_REQUESTS fresh timestamps and the persisted record predicts a
\* state that needs no query.
C16_Witness ==
    /\ last.op = "refresh"
    /\ last.forced
    /\ last.path = "issued"
    /\ Fresh(globalRequestTimes, now) > RATE_MAX_REQUESTS
    /\ PredictionValid(storage[last.server], now)

\* The stamps of times recorded in the RATE_WINDOW_MS before t, t included.
Recorded(times, t) == Len(SelectSeq(times, LAMBDA x : t - x <= RATE_WINDOW_MS))

\* C17: a non-forced invocation issues a network call only in a state where
\* fewer than RATE_MAX_REQUESTS requests, of any server and forced or not,
\* were recorded in the preceding RATE_WINDOW_MS, and the step that passes
\* the check is the step that records the new timestamp.
C17_GlobalCeiling ==
    [][\A c \in Slots :
         (/\ calls[c].pc = "loadState"
          /\ calls'[c].pc = "fetch")
         => /\ ~calls'[c].forced
            /\ Recorded(globalRequestTimes, now) < RATE_MAX_REQUESTS
            /\ globalRequestTimes' = Append(pruneOld(globalRequestTimes, now), now)
            /\ Recorded(globalRequestTimes', now) <= RATE_MAX_REQUESTS]_vars

\* C17 witness: a non-forced request for server 1 took the last place of the
\* window while a forced request for server 0 recorded in it was in flight.
C17_Witness ==
    /\ last.op = "loadState"
    /\ last.path = "issued"
    /\ last.server = 1
    /\ Recorded(globalRequestTimes, now) = RATE_MAX_REQUESTS
    /\ \E d \in Slots : calls[d].pc = "fetch" /\ calls[d].forced /\ calls[d].server = 0

\* C18: for a persisted announced record with open time T and name n,
\* predictState returns {type open, name n, open_time T, close_time
\* T + OPEN_WINDOW_SEC} when T <= now < T + OPEN_WINDOW_SEC, and the announced
\* record itself when now < T.
C18_AnnouncedPrediction ==
    LET d == storage[0].data.data
        sec == now \div 1000
    IN
    (/\ last.op = "predictState"
     /\ storage[0].present
     /\ d.type = "announced"
     /\ d.open_time # 0)
    => /\ (d.open_time <= sec /\ sec < d.open_time + OPEN_WINDOW_SEC)
          => last.ret.data = Open(d.name, d.open_time, d.open_time + OPEN_WINDOW_SEC)
       /\ sec < d.open_time => last.ret.data = d

\* C18 witness: the prediction for an announced event in the second it opens.
C18_Witness ==
    /\ last.op = "predictState"
    /\ storage[0].present
    /\ storage[0].data.data.type = "announced"
    /\ storage[0].data.data.name = "F"
    /\ now \div 1000 = storage[0].data.data.open_time
    /\ last.ret.data.type = "open"

\* C19: for a persisted open record whose close time C is close_time or,
\* when close_time is absent, open_time + OPEN_WINDOW_SEC, predictState
\* returns {type closed, predicted_open_time C + COOLDOWN_GAP_SEC +
\* ANNOUNCE_WINDOW_SEC} when now >= C, and the open record itself when now < C.
C19_OpenPrediction ==
    LET d == storage[0].data.data
        sec == now \div 1000
        C == IF d.close_time # 0 THEN d.close_time ELSE d.open_time + OPEN_WINDOW_SEC
    IN
    (/\ last.op = "predictState"
     /\ storage[0].present
     /\ d.type = "open"
     /\ (d.close_time # 0 \/ d.open_time # 0))
    => /\ sec >= C => last.ret.data = Closed(C + COOLDOWN_GAP_SEC + ANNOUNCE_WINDOW_SEC)
       /\ sec < C => last.ret.data = d

\* C19 witness: the prediction for an open event without close_time in the
\* second open_time + OPEN_WINDOW_SEC.
C19_Witness ==
    /\ last.op = "predictState"
    /\ storage[0].present
    /\ storage[0].data.data.type = "open"
    /\ storage[0].data.data.close_time = 0
    /\ now \div 1000 = storage[0].data.data.open_time + OPEN_WINDOW_SEC
    /\ last.ret.data.type = "closed"

\* C20: needsApiQuery is true for a closed record with predicted_open_time P
\* exactly when now >= P - ANNOUNCE_WINDOW_SEC, true for a null prediction,
\* and false for every announced and every open record.
C20_NeedsApiQuery ==
    LET d == last.ret.data
        sec == now \div 1000
    IN
    last.op = "needsApiQuery"
    => /\ (d.type = "closed" /\ d.predicted_open_time > ANNOUNCE_WINDOW_SEC)
          => (last.path = "true" <=> sec >= d.predicted_open_time - ANNOUNCE_WINDOW_SEC)
       /\ d.type = "null" => last.path = "true"
       /\ d.type \in {"announced", "open"} => last.path = "false"

\* C20 witness: the answer for a closed record in the second
\* predicted_open_time - ANNOUNCE_WINDOW_SEC.
C20_Witness ==
    /\ last.op = "needsApiQuery"
    /\ last.ret.data.type = "closed"
    /\ last.ret.data.predicted_open_time > ANNOUNCE_WINDOW_SEC
    /\ now \div 1000 = last.ret.data.predicted_open_time - ANNOUNCE_WINDOW_SEC
    /\ last.path = "true"

\* C21: for a persisted record of type announced, open or closed the loop of
\* predictState is left after at most 3 iterations at every instant, so the
\* count never reaches maxIterations and predictState returns a record.
C21_IterationCapUnreached ==
    LET d == storage[0].data.data
        r == predictLoop(d, 0, now \div 1000)
    IN
    (/\ last.op = "predictState"
     /\ storage[0].present
     /\ d.type \in {"announced", "open", "closed"})
    => /\ r[2] <= 3
       /\ r[2] < maxIterations
       /\ last.ret.data = r[1]
       /\ last.ret.data.type # "null"

\* C21 witness: an announced event whose window has closed takes the loop
\* through three iterations and predictState returns the closed record.
C21_Witness ==
    /\ last.op = "predictState"
    /\ storage[0].present
    /\ storage[0].data.data.type = "announced"
    /\ predictLoop(storage[0].data.data, 0, now \div 1000)[2] = 3
    /\ last.ret.data.type = "closed"

\* C22: no step replaces the cached snapshot of a server while an earlier
\* replacement of it has not been followed by an update message carrying the
\* snapshot it stored.
C22_ReplacementNotified ==
    [][\A s \in Servers : caches'[s] # caches[s] => ~unnotified[s]]_vars

\* C23: the second loop of get-all calls fetchFromAPI, non-forced, for a
\* server only if loadState gave no event record for it or needsApiQuery
\* holds for its prediction; for a server whose prediction is valid it calls
\* no fetchFromAPI, and the first loop stores the predicted snapshot and puts
\* it into the answer.
C23_GetAllFetchesOnlyWhenNeeded ==
    [][\A h \in HSlots :
         (handlers[h].pc \in {"allLoad1", "allLoad2"} /\ handlers'[h] # handlers[h])
         => LET H == handlers[h]
                id == H.ids[H.pos]
                loaded == IF last'.ok THEN storage[id] ELSE NoEntry
                valid == PredictionValid(loaded, now)
                fetched == last'.path \in {"suspended", "coalesced", "issued"}
            IN
            /\ last'.op = "get-all"
            /\ last'.server = id
            /\ H.pc = "allLoad2"
               => /\ fetched => (\/ ~HasRecord(loaded)
                                 \/ needsApiQuery(Predicted(loaded, now), now \div 1000))
                  /\ fetched => (~last'.forced /\ last'.path # "issued")
                  /\ ~fetched => (calls' = calls /\ nCalls' = nCalls)
                  /\ valid => (~fetched /\ last'.path = "nofetch")
                  /\ caches' = caches
            /\ (H.pc = "allLoad1" /\ valid)
               => /\ last'.path = "predicted"
                  /\ id \in handlers'[h].resp
                  /\ caches'[id] = PredictionSnapshot(loaded, now)
                  /\ last'.ret = caches'[id]
                  /\ calls' = calls]_vars

\* C23 witness: the second loop of get-all called fetchFromAPI for a server
\* whose persisted closed record has reached its announcement time.
C23_Witness ==
    /\ last.op = "get-all"
    /\ last.path = "suspended"
    /\ last.ok
    /\ storage[last.server].data.data.type = "closed"
    /\ \E h \in HSlots : last.server \in handlers[h].resp

\* C24: when saveState(s, X), called at instant t, has completed with the
\* value stored, loadState(s) resolves to {data: X, savedAt: t} and what
\* loadState resolves to for the other servers is as before; and a step in
\* which no saveState completes changes what loadState resolves to for no
\* server.
C24_SaveLoadRoundTrip ==
    [][/\ \A c \in Slots :
            (calls[c].pc = "fetch" /\ calls'[c].pc = "saveState")
            => /\ calls'[c].toSave.data = caches'[calls[c].server]
               /\ calls'[c].toSave.savedAt = now
       /\ \A c \in Slots :
            (calls[c].pc = "saveState" /\ calls'[c].pc # "saveState" /\ last'.ok)
            => /\ loadState(storage', calls[c].server, TRUE)
                    = [present |-> TRUE, data |-> calls[c].toSave.data,
                       savedAt |-> calls[c].toSave.savedAt]
               /\ \A x \in Servers \ {calls[c].server} :
                     loadState(storage', x, TRUE) = loadState(storage, x, TRUE)
       /\ (\A c \in Slots : ~(calls[c].pc = "saveState" /\ calls'[c].pc # "saveState"))
          => \A x \in Servers : loadState(storage', x, TRUE) = loadState(storage, x, TRUE)]_vars

\* C24 witness: a prediction made from the entry a saveState of an earlier
\* instant stored: the entry read back holds the saved snapshot and instant.
C24_Witness ==
    /\ last.op = "loadState"
    /\ last.path = "predicted"
    /\ last.ok
    /\ storage[last.server].data.data.name = "E"
    /\ storage[last.server].savedAt = StartMs
    /\ storage[last.server].data.lastUpdated = StartMs
    /\ now > StartMs
    /\ last.ret.lastUpdated = StartMs

C26_DirectoryMemoized ==
    [][/\ (~serversPromise /\ serversPromise') => ~serversList.known
       /\ (serversPromise /\ ~serversPromise')
          => /\ ~serversList.known
             /\ serversList'.known
             /\ last'.op = "directory"
             /\ last'.ok
                => serversList'.ids
                     = serverIds(SelectSeq(last'.body,
                                           LAMBDA r : r.active = 1 \/ r.active = -1))
             /\ ~last'.ok => serversList'.ids = <<>>
       /\ serversList.known => (serversList' = serversList /\ ~serversPromise')
       /\ serversList' # serversList => (serversPromise /\ ~serversPromise')
       /\ \A h \in HSlots :
            (handlers[h].pc = "dir" /\ handlers'[h].pc # "dir")
            => /\ serversList.known
               /\ ~serversPromise
               /\ handlers'[h].pc = "allLoad1" => handlers'[h].ids = serversList.ids]_vars

\* C26 witness: get-servers resumed with the list of one request whose body
\* had an inactive row, and a get-all handler holds the same list.
C26_Witness ==
    /\ last.op = "get-servers"
    /\ last.path = "list"
    /\ serversList = List(<<0>>)
    /\ ~serversPromise
    /\ \E h \in HSlots : handlers[h].kind = "get-all" /\ handlers[h].ids = <<0>>

\* C27: the retry delay of a 429 response is 10 000 ms when Retry-After is
\* absent, empty or neither a number nor a date, max(1000, 1000 * secs) when
\* it is the number secs, max(1000, date - now) when it is a date, and so
\* never below 1000 ms.
C27_RetryAfterParsing ==
    (last.op = "retryDelay" \/ (last.op = "fetch" /\ last.path = "429"))
    => /\ last.ra.kind \in {"absent", "empty", "other"} => last.delay = 10000
       /\ last.ra.kind = "number"
          => last.delay = (IF 1000 * last.ra.secs > 1000 THEN 1000 * last.ra.secs ELSE 1000)
       /\ last.ra.kind = "date"
          => last.delay = (IF last.ra.date - now > 1000 THEN last.ra.date - now ELSE 1000)
       /\ last.delay >= 1000

\* C27 witness: the delay computed from a date less than a second ahead is
\* the floor of 1000 ms.
C27_Witness ==
    /\ last.op = "retryDelay"
    /\ last.ra.kind = "date"
    /\ last.ra.date > now
    /\ last.ra.date - now < 1000
    /\ last.delay = 1000


\* C28: a click on the refresh control sends refresh-all only if the
\* rate-limit status read at click time reports available > 0; when it
\* reports available <= 0 the click sends nothing and no snapshot changes.
C28_RefreshGated ==
    [][\A h \in HSlots :
         handlers[h].pc = "clicked" /\ handlers'[h].pc # "clicked" =>
           /\ handlers'[h].kind = "refresh-all" =>
                handlers[h].read /\ handlers[h].avail > 0
           /\ handlers[h].read /\ handlers[h].avail <= 0 =>
                /\ handlers'[h].pc = "done"
                /\ caches' = caches
                /\ serversPromise' = serversPromise]_vars


\* C29: refresh-all answers only when the forced fetch of every server of the
\* directory has settled, the answer has exactly one entry per server id of
\* the directory, and a refresh-all that waits is always answered, whatever
\* the outcome of its fetches.
C29_RefreshAllAnswers ==
    /\ [][\A h \in HSlots :
            handlers[h].pc = "refreshWait" /\ handlers'[h].pc = "done" =>
              /\ Len(handlers[h].wait) = Len(serversList.ids)
              /\ \A i \in 1 .. Len(handlers[h].wait) :
                     calls[handlers[h].wait[i]].pc = "idle"
              /\ handlers'[h].resp = {serversList.ids[i] : i \in 1 .. Len(serversList.ids)}
              /\ Cardinality(handlers'[h].resp) = Len(serversList.ids)]_vars
    /\ \A h \in HSlots : (handlers[h].pc = "refreshWait") ~> (handlers[h].pc = "done")

\* A single refresh-all for servers 0 and 1 is answered after the fetch of
\* server 0 ended in a 429 and that of server 1 in the catch block.
C29_Witness ==
    /\ last.op = "refresh-all"
    /\ last.path = "answered"
    /\ nCalls = 2
    /\ \E h \in HSlots : handlers[h].pc = "done" /\ handlers[h].resp = {0, 1}
    /\ retryTimer[0] # 0
    /\ retryTimer[1] = 0
    /\ caches[1].lastUpdated = 0
    /\ ~caches[1].loading


\* C30: maybeAutoRefreshOnZero sends a refresh-all for a server only if it
\* has sent none for it before, or the countdown of the server has been above
\* 1 second since the last one it sent.
C30_OneShotAutoRefresh ==
    [][\A s \in Servers : popup'.sent[s] > popup.sent[s] => popup.armed[s]]_vars


\* C31: while a network call for a server is awaited, the in-flight marker of
\* the server is non-null and the cached snapshot of the server has
\* loading = true.
C31_LiveCallMarked ==
    \A c \in Slots :
        calls[c].pc = "fetch" =>
            /\ inFlight[calls[c].server] # 0
            /\ caches[calls[c].server].loading


\* C32: the lastUpdated of the cached snapshot of a server never decreases,
\* so no step replaces the data of a successful fetch by a snapshot that was
\* taken before it.
C32_NoStaleOverwrite ==
    [][\A s \in Servers : caches'[s].lastUpdated >= caches[s].lastUpdated]_vars


\* C33: at every instant timeUntilNextSlotMs returns 0 exactly when
\* canMakeAutoRequest returns true.
C33_LimiterConsistent ==
    (timeUntilNextSlotMs(globalRequestTimes, now) = 0)
        <=> canMakeAutoRequest(globalRequestTimes, now)


\* C34: whatever event record is persisted, with the alarm firing every
\* period and the rate window open, a non-forced request eventually issues a
\* network call instead of returning a predicted snapshot.
C34_NoPermanentPrediction ==
    <>(last.op = "loadState" /\ last.path = "issued")


\* C35: for a persisted announced record with open time T, or open record
\* with close time C = T + OPEN_WINDOW_SEC, a non-forced request returns the
\* prediction exactly while now < C + COOLDOWN_GAP_SEC; from then on
\* predictState gives {type closed, predicted_open_time C + COOLDOWN_GAP_SEC +
\* ANNOUNCE_WINDOW_SEC}, needsApiQuery is true, and the request issues a
\* network call, or is denied when the rate window is full.
C35_PredictionHorizon ==
    LET d == storage[0].data.data
        sec == now \div 1000
        C == IF d.type = "announced" THEN d.open_time + OPEN_WINDOW_SEC ELSE d.close_time
    IN
    /\ last.op = "loadState" =>
         /\ last.path = "predicted" <=> sec < C + COOLDOWN_GAP_SEC
         /\ sec >= C + COOLDOWN_GAP_SEC =>
              \/ /\ last.path = "issued"
                 /\ globalRequestTimes = <<now>>
                 /\ calls[1].pc = "fetch"
              \/ /\ last.path = "denied"
                 /\ Fresh(globalRequestTimes, now) >= RATE_MAX_REQUESTS
    /\ (last.op = "prediction" /\ sec >= C + COOLDOWN_GAP_SEC) =>
         /\ last.ret.data = Closed(C + COOLDOWN_GAP_SEC + ANNOUNCE_WINDOW_SEC)
         /\ last.path = "true"

\* C35 witness: a request for an announced event in the second
\* open_time + OPEN_WINDOW_SEC + COOLDOWN_GAP_SEC issues a network call.
C35_Witness ==
    /\ last.op = "loadState"
    /\ last.path = "issued"
    /\ storage[0].data.data.type = "announced"
    /\ now \div 1000 = storage[0].data.data.open_time + OPEN_WINDOW_SEC + COOLDOWN_GAP_SEC


\* C36: a failed request to the servers endpoint is memoized as the empty
\* list.  The step that ends the request in failure stores the empty list;
\* from then on the list never changes and no further directory request is
\* started, no event fetch is started (no call, no cache, no in-flight entry
\* and no limiter stamp changes), get-all loads no server, refresh-all waits
\* on nothing, and every handler that answers answers with the empty mapping.
C36_FailedDirectoryMemoized ==
    [][/\ (last'.op = "directory" /\ ~last'.ok) => serversList' = List(<<>>)
       /\ serversList = List(<<>>) =>
            /\ serversList' = serversList
            /\ ~serversPromise'
            /\ nCalls' = nCalls
            /\ calls' = calls
            /\ caches' = caches
            /\ inFlight' = inFlight
            /\ globalRequestTimes' = globalRequestTimes
            /\ \A h \in HSlots :
                 /\ handlers'[h].pc \notin {"allLoad1", "allLoad2"}
                 /\ handlers'[h].pc = "refreshWait" => handlers'[h].wait = <<>>
                 /\ (handlers[h].pc # "done" /\ handlers'[h].pc = "done")
                        => handlers'[h].resp = {}]_vars

\* A refresh-all has answered after the directory request failed, every
\* handler is done and no event fetch was ever started.
C36_Witness ==
    /\ serversList = List(<<>>)
    /\ last.op = "refresh-all"
    /\ last.path = "answered"
    /\ \A h \in HSlots : handlers[h].pc = "done" /\ handlers[h].resp = {}
    /\ nCalls = 0


\* C37: whenever maybeAutoRefreshOnZero of the popup replaces the record it
\* shows for a server (announced by open, or open by closed), the record it
\* writes is the one predictNextState of the background gives for the record
\* it replaced at the same second, predicted_open_time included.
C37_PopupAgreesWithBackground ==
    [][\A s \in Servers :
          LET d == popup.last[s].snap.data
              e == popup'.last[s].snap.data
          IN (/\ popup'.sent[s] > popup.sent[s]
              /\ \/ d.type = "announced" /\ e.type = "open"
                 \/ d.type = "open" /\ e.type = "closed")
                => e = predictNextState(d, NowSec)]_vars


\* C38: with no forced request, after a non-forced invocation for server 0
\* is denied by the rate limiter, an invocation the retry timer starts for
\* server 0 eventually issues a network call or returns a prediction.
C38_RecoversAfterDenial ==
    (last.op = "loadState" /\ last.path = "denied" /\ last.server = 0)
        ~> \/ calls[2].pc = "fetch" /\ calls[2].server = 0
           \/ /\ last.op = "loadState"
              /\ last.server = 0
              /\ last.path = "predicted"


\* C39: the error field is null in every snapshot the scheduler holds: in
\* the cache of every server, in every persisted entry, and in the snapshot
\* the last step returned, whatever the outcome of a fetch was (local
\* denial, 429, non-2xx status, network error, parse failure).
C39_ErrorAlwaysNull ==
    /\ \A s \in Servers : caches[s].error = "null"
    /\ \A s \in Servers : storage[s].present => storage[s].data.error = "null"
    /\ last.ret.error = "null"

\* A fetch has just failed and left a snapshot that is not loading, with no
\* error, while the server's cache holds the data of an earlier success.
C39_Witness ==
    /\ last.op = "fetch"
    /\ last.path \in FailKinds
    /\ ~caches[last.server].loading
    /\ caches[last.server].error = "null"
    /\ caches[last.server].data.type # "null"

====
